---- MODULE Spec2Model ----
(***************************************************************************)
(* VoiceBuddy (src/v_b.py): the command splitter and router, the reminder  *)
(* scheduler, the speech output serializer, the launch resolution chain    *)
(* and the Tk polling loop, as a state machine.                            *)
(*                                                                         *)
(* Text is modelled character by character: a Python str is a sequence of  *)
(* one-character strings, so that lower(), strip(), startswith(), "in",    *)
(* re.match and re.split are computed as the interpreter computes them.    *)
(***************************************************************************)
EXTENDS Integers, Sequences, FiniteSets, TLC

\* ------------------------------------------------------------------------
\* Python str primitives
\* ------------------------------------------------------------------------
UpperLetters == <<"A","B","C","D","E","F","G","H","I","J","K","L","M",
                  "N","O","P","Q","R","S","T","U","V","W","X","Y","Z">>
LowerLetters == <<"a","b","c","d","e","f","g","h","i","j","k","l","m",
                  "n","o","p","q","r","s","t","u","v","w","x","y","z">>
DigitChars == <<"0","1","2","3","4","5","6","7","8","9">>

Range(f) == {f[i] : i \in DOMAIN f}
SetMin(S) == CHOOSE x \in S : \A y \in S : x <= y
SetMax(S) == CHOOSE x \in S : \A y \in S : x >= y

IsUpper(c) == c \in Range(UpperLetters)
IsDigit(c) == c \in Range(DigitChars)
DigitVal(c) == (CHOOSE i \in DOMAIN DigitChars : DigitChars[i] = c) - 1
\* str.isspace for the characters of the modelled alphabet (also regex \s)
IsSpace(c) == c \in {" ", "\t"}
\* regex \w
IsWordChar(c) == c \in Range(UpperLetters) \cup Range(LowerLetters)
                       \cup Range(DigitChars) \cup {"_"}

LowerChar(c) ==
    IF IsUpper(c)
    THEN LowerLetters[CHOOSE i \in DOMAIN UpperLetters : UpperLetters[i] = c]
    ELSE c
\* str.lower()
lower(s) == [i \in 1..Len(s) |-> LowerChar(s[i])]
\* str.strip()
strip(s) ==
    LET keep == {i \in 1..Len(s) : ~IsSpace(s[i])}
    IN  IF keep = {} THEN << >> ELSE SubSeq(s, SetMin(keep), SetMax(keep))
\* str.startswith(p)
startswith(s, p) == Len(s) >= Len(p) /\ SubSeq(s, 1, Len(p)) = p
\* s[n:]
Drop(s, n) == SubSeq(s, n + 1, Len(s))
\* p in s
contains(s, p) == \E i \in 1..(Len(s) - Len(p) + 1) : SubSeq(s, i, i + Len(p) - 1) = p
\* number of leading characters of s that satisfy the digit test
RECURSIVE LeadingDigits(_)
LeadingDigits(s) ==
    IF s # << >> /\ IsDigit(Head(s)) THEN 1 + LeadingDigits(Tail(s)) ELSE 0
RECURSIVE LeadingSpaces(_)
LeadingSpaces(s) ==
    IF s # << >> /\ IsSpace(Head(s)) THEN 1 + LeadingSpaces(Tail(s)) ELSE 0
\* int(digits) for a short run of digits
RECURSIVE IntOf(_)
IntOf(ds) ==
    IF ds = << >> THEN 0
    ELSE 10 * IntOf(SubSeq(ds, 1, Len(ds) - 1)) + DigitVal(ds[Len(ds)])
\* re.sub(r"\s+", "", s)
RECURSIVE RemoveSpaces(_)
RemoveSpaces(s) ==
    IF s = << >> THEN << >>
    ELSE IF IsSpace(Head(s)) THEN RemoveSpaces(Tail(s))
         ELSE <<Head(s)>> \o RemoveSpaces(Tail(s))

\* ------------------------------------------------------------------------
\* String constants of the source
\* ------------------------------------------------------------------------
P_write_note == <<"w","r","i","t","e"," ","n","o","t","e">>
P_save_note == <<"s","a","v","e"," ","n","o","t","e">>
P_list_notes == <<"l","i","s","t"," ","n","o","t","e","s">>
P_open_note == <<"o","p","e","n"," ","n","o","t","e">>
P_open == <<"o","p","e","n"," ">>
P_joke == <<"j","o","k","e">>
P_time == <<"t","i","m","e">>
P_date == <<"d","a","t","e">>
P_remind_me_in == <<"r","e","m","i","n","d"," ","m","e"," ","i","n"," ">>
P_minute == <<"m","i","n","u","t","e">>
P_to == <<" ","t","o"," ">>
P_remind_me_at == <<"r","e","m","i","n","d"," ","m","e"," ","a","t"," ">>
P_list_reminders == <<"l","i","s","t"," ","r","e","m","i","n","d","e","r","s">>
P_cancel_all_reminders == <<"c","a","n","c","e","l"," ","a","l","l"," ","r","e","m","i","n","d","e","r","s">>
P_and == <<"a","n","d">>
P_then == <<"t","h","e","n">>
P_http_scheme == <<"h","t","t","p",":","/","/">>
P_https_scheme == <<"h","t","t","p","s",":","/","/">>
P_http == <<"h","t","t","p">>
P_website == <<"w","e","b","s","i","t","e"," ">>
P_site == <<"s","i","t","e"," ">>
P_www == <<"w","w","w",".">>
P_com == <<".","c","o","m">>
P_https_www == <<"h","t","t","p","s",":","/","/","w","w","w",".">>
P_code == <<"c","o","d","e">>
P_code_exe == <<"c","o","d","e",".","e","x","e">>
P_vscode == <<"v","s","c","o","d","e">>

\* ------------------------------------------------------------------------
\* handle_command: re.split(r"\b(?:and|then)\b", cmd, flags=re.IGNORECASE)
\* ------------------------------------------------------------------------
\* regex \b at the gap before position i of s
WordBoundary(s, i) ==
    LET w(j) == j \in 1..Len(s) /\ IsWordChar(s[j])
    IN  w(i - 1) # w(i)
\* length of the conjunction matched at position i, 0 when none matches
ConjunctionAt(s, i) ==
    LET at(p) == /\ i + Len(p) - 1 <= Len(s)
                 /\ lower(SubSeq(s, i, i + Len(p) - 1)) = p
                 /\ WordBoundary(s, i)
                 /\ WordBoundary(s, i + Len(p))
    IN  IF at(P_and) THEN Len(P_and)
        ELSE IF at(P_then) THEN Len(P_then)
        ELSE 0
RECURSIVE SplitFrom(_, _, _)
SplitFrom(s, i, start) ==
    IF i > Len(s) THEN <<SubSeq(s, start, Len(s))>>
    ELSE LET n == ConjunctionAt(s, i)
         IN  IF n > 0
             THEN <<SubSeq(s, start, i - 1)>> \o SplitFrom(s, i + n, i + n)
             ELSE SplitFrom(s, i + 1, start)
re_split_conjunctions(cmd) == SplitFrom(cmd, 1, 1)

\* ------------------------------------------------------------------------
\* handle_single_command: the rule chain (pure part)
\* ------------------------------------------------------------------------
\* re.match(r"remind me in (\d+)\s*minutes? to (.+)", lower)
match_remind_in(text) ==
    LET r1 == Drop(text, Len(P_remind_me_in))
        nd == LeadingDigits(r1)
        r2 == Drop(r1, nd)
        r3 == Drop(r2, LeadingSpaces(r2))
        r4 == Drop(r3, Len(P_minute))
        r5 == IF r4 # << >> /\ Head(r4) = "s" /\ startswith(Tail(r4), P_to)
              THEN Tail(r4) ELSE r4
        ok == /\ startswith(text, P_remind_me_in)
              /\ nd >= 1
              /\ startswith(r3, P_minute)
              /\ startswith(r5, P_to)
              /\ Len(r5) > Len(P_to)
    IN  [ok |-> ok,
         g1 |-> IF ok THEN SubSeq(r1, 1, nd) ELSE << >>,
         g2 |-> IF ok THEN Drop(r5, Len(P_to)) ELSE << >>]

\* re.match(r"remind me at (\d{1,2}:\d{2}) to (.+)", lower)
match_remind_at(text) ==
    LET r1 == Drop(text, Len(P_remind_me_at))
        nh == LeadingDigits(r1)
        r2 == Drop(r1, nh)
        r3 == Drop(r2, 1)
        r4 == Drop(r3, 2)
        ok == /\ startswith(text, P_remind_me_at)
              /\ nh \in {1, 2}
              /\ startswith(r2, <<":">>)
              /\ LeadingDigits(r3) >= 2
              /\ startswith(r4, P_to)
              /\ Len(r4) > Len(P_to)
    IN  [ok |-> ok,
         g1 |-> IF ok THEN SubSeq(r1, 1, nh + 3) ELSE << >>,
         g2 |-> IF ok THEN Drop(r4, Len(P_to)) ELSE << >>]

\* datetime.strptime(time_str, "%H:%M") / "%I:%M" on the text the regex
\* captured: the seconds since midnight, or -1 for ValueError
SecondsPerMinute == 60
MinutesPerHour == 60
HoursPerDay == 24
SecondsPerDay == HoursPerDay * MinutesPerHour * SecondsPerMinute
TimeFields(time_str) ==
    LET nh == LeadingDigits(time_str)
    IN  [hour |-> IntOf(SubSeq(time_str, 1, nh)),
         minute |-> IntOf(SubSeq(time_str, nh + 2, nh + 3))]
TimeOfDay(f) == (f.hour * MinutesPerHour + f.minute) * SecondsPerMinute
strptime_H_M(time_str) ==
    LET f == TimeFields(time_str)
    IN  IF f.hour <= 23 /\ f.minute <= 59 THEN TimeOfDay(f) ELSE -1
strptime_I_M(time_str) ==
    LET f == TimeFields(time_str)
    IN  IF f.hour >= 1 /\ f.hour <= 12 /\ f.minute <= 59
        THEN TimeOfDay([f EXCEPT !.hour = f.hour % 12]) ELSE -1
\* lines 485-493: 24-hour parse first, 12-hour parse when that raises
parse_reminder_time(time_str) ==
    IF strptime_H_M(time_str) >= 0 THEN strptime_H_M(time_str)
    ELSE strptime_I_M(time_str)

\* rest.split(":", 1) of lines 406-412: title (None is the empty text, which
\* "if title:" treats alike) and content
NoteFields(rest) ==
    LET colons == {i \in 1..Len(rest) : rest[i] = ":"}
    IN  IF colons # {}
        THEN [title |-> strip(SubSeq(rest, 1, SetMin(colons) - 1)),
              content |-> strip(Drop(rest, SetMin(colons)))]
        ELSE [title |-> << >>, content |-> rest]

Matched(rule, a, b) == [rule |-> rule, a |-> a, b |-> b]

\* the chain with the joke test written above the others
match_rule_joke_first(cmd) ==
    LET low == lower(cmd)
        m   == match_remind_in(low)
        m2  == match_remind_at(low)
        note(n) == NoteFields(strip(Drop(cmd, n)))
    IN  IF contains(low, P_joke)
        THEN Matched("joke", << >>, << >>)
        ELSE IF startswith(low, P_write_note)
        THEN Matched("write note", note(Len(P_write_note)).title,
                                   note(Len(P_write_note)).content)
        ELSE IF startswith(low, P_save_note)
        THEN Matched("save note", note(Len(P_save_note)).title,
                                  note(Len(P_save_note)).content)
        ELSE IF startswith(low, P_list_notes)
        THEN Matched("list notes", << >>, << >>)
        ELSE IF startswith(low, P_open_note)
        THEN Matched("open note", strip(Drop(cmd, Len(P_open_note))), << >>)
        ELSE IF startswith(low, P_open)
        THEN Matched("open", strip(Drop(cmd, Len(P_open))), << >>)
        ELSE IF low = P_time
        THEN Matched("time", << >>, << >>)
        ELSE IF low = P_date
        THEN Matched("date", << >>, << >>)
        ELSE IF m.ok
        THEN Matched("remind in", m.g1, strip(m.g2))
        ELSE IF m2.ok
        THEN Matched("remind at", m2.g1, strip(m2.g2))
        ELSE IF low = P_list_reminders
        THEN Matched("list reminders", << >>, << >>)
        ELSE IF low = P_cancel_all_reminders
        THEN Matched("cancel all reminders", << >>, << >>)
        ELSE Matched("unrecognized", << >>, << >>)

\* The if-chain of handle_single_command on a stripped, non-empty cmd: the
\* branch taken and the values it extracts.
match_rule(cmd) ==
    LET low == lower(cmd)
        m   == match_remind_in(low)
        m2  == match_remind_at(low)
        note(n) == NoteFields(strip(Drop(cmd, n)))
    IN  IF startswith(low, P_write_note)
        THEN Matched("write note", note(Len(P_write_note)).title,
                                   note(Len(P_write_note)).content)
        ELSE IF startswith(low, P_save_note)
        THEN Matched("save note", note(Len(P_save_note)).title,
                                  note(Len(P_save_note)).content)
        ELSE IF startswith(low, P_list_notes)
        THEN Matched("list notes", << >>, << >>)
        ELSE IF startswith(low, P_open_note)
        THEN Matched("open note", strip(Drop(cmd, Len(P_open_note))), << >>)
        ELSE IF startswith(low, P_open)
        THEN Matched("open", strip(Drop(cmd, Len(P_open))), << >>)
        ELSE IF contains(low, P_joke)
        THEN Matched("joke", << >>, << >>)
        ELSE IF low = P_time
        THEN Matched("time", << >>, << >>)
        ELSE IF low = P_date
        THEN Matched("date", << >>, << >>)
        ELSE IF m.ok
        THEN Matched("remind in", m.g1, strip(m.g2))
        ELSE IF m2.ok
        THEN Matched("remind at", m2.g1, strip(m2.g2))
        ELSE IF low = P_list_reminders
        THEN Matched("list reminders", << >>, << >>)
        ELSE IF low = P_cancel_all_reminders
        THEN Matched("cancel all reminders", << >>, << >>)
        ELSE Matched("unrecognized", << >>, << >>)

\* handle_command, lines 513-516: the fragments handed to
\* handle_single_command, in order
Fragments(cmd) ==
    LET parts == re_split_conjunctions(cmd)
        F[i \in 0..Len(parts)] ==
            IF i = 0 THEN << >>
            ELSE IF strip(parts[i]) # << >> THEN Append(F[i - 1], strip(parts[i]))
                 ELSE F[i - 1]
    IN  F[Len(parts)]

\* ------------------------------------------------------------------------
\* Launch resolution: looks_like_url .. open_any_app
\* ------------------------------------------------------------------------
\* What a call leaves behind, in program order: a gui_log line, a speak()
\* call, an external launch primitive, or a lookup that launches nothing.
\* f names the format string (or the primitive), a is the text filled in.
\* ok is the outcome of a primitive (it did not raise) or of a lookup.
\* The environment of one resolution: the launch primitives that raise, and
\* the paths os.path.exists does not find.
Raises(env, f, a) == <<f, a>> \in env.raises
Exists(env, path) == path \notin env.absent
LogEv(f, a)   == [t |-> "log",   f |-> f, a |-> a, ok |-> TRUE]
SayEv(f, a)   == [t |-> "speak", f |-> f, a |-> a, ok |-> TRUE]
CallEv(env, f, a)  == [t |-> "call",  f |-> f, a |-> a, ok |-> ~Raises(env, f, a)]
ExistsEv(env, a) == [t |-> "query", f |-> "os.path.exists", a |-> a, ok |-> Exists(env, a)]

\* a test that knows URLs by their scheme only
looks_like_url_scheme_only(text) ==
    LET t == lower(strip(text))
    IN  \/ startswith(t, P_http_scheme)
        \/ startswith(t, P_https_scheme)
\* looks_like_url, lines 210-217
looks_like_url(text) ==
    LET t == lower(strip(text))
    IN  \/ startswith(t, P_http_scheme)
        \/ startswith(t, P_https_scheme)
        \/ (contains(t, <<".">>) /\ ~contains(t, <<" ">>))

normalize_website(target) ==
    LET t == strip(target)
    IN  IF startswith(t, P_http_scheme) \/ startswith(t, P_https_scheme) THEN t
        ELSE IF ~contains(t, <<".">>) THEN P_https_www \o t \o P_com
        ELSE IF ~startswith(t, P_http) THEN P_https_scheme \o t
        ELSE t

try_open_website(target, env) ==
    LET url == normalize_website(target)
        pre == <<LogEv("Opening website: {}", url), CallEv(env, "webbrowser.open", url)>>
    IN  IF Raises(env, "webbrowser.open", url)
        THEN [ok |-> FALSE,
              ev |-> pre \o <<LogEv("Failed to open website {}", target)>>]
        ELSE [ok |-> TRUE,
              ev |-> pre \o <<SayEv("Opening {}", target)>>]

\* ntpath.isabs: past an optional drive letter the path begins with a slash
isabs(path) ==
    LET p == IF Len(path) >= 2 /\ path[2] = ":" THEN Drop(path, 2) ELSE path
    IN  p # << >> /\ Head(p) \in {"\\", "/"}

\* a launch that gives up when Popen raises
try_launch_executable_no_fallback(path_or_cmd, env) ==
    LET probe == IF isabs(path_or_cmd)
                 THEN <<ExistsEv(env, path_or_cmd)>> ELSE << >>
        first == probe \o <<CallEv(env, "Popen", path_or_cmd)>>
    IN  IF ~Raises(env, "Popen", path_or_cmd)
        THEN [ok |-> TRUE, ev |-> first]
        ELSE [ok |-> FALSE,
              ev |-> first \o <<LogEv("attempt to run '{}' failed", path_or_cmd)>>]
\* try_launch_executable, lines 240-258
try_launch_executable(path_or_cmd, env) ==
    LET probe == IF isabs(path_or_cmd)
                 THEN <<ExistsEv(env, path_or_cmd)>> ELSE << >>
        first == probe \o <<CallEv(env, "Popen", path_or_cmd)>>
        second == first
                  \o <<LogEv("attempt to run '{}' failed", path_or_cmd),
                       CallEv(env, "shell start", path_or_cmd)>>
    IN  IF ~Raises(env, "Popen", path_or_cmd)
        THEN [ok |-> TRUE, ev |-> first]
        ELSE IF ~Raises(env, "shell start", path_or_cmd)
        THEN [ok |-> TRUE, ev |-> second]
        ELSE [ok |-> FALSE,
              ev |-> second \o <<LogEv("shell start fallback for '{}' failed",
                                       path_or_cmd)>>]

\* the dict of lines 269-294, as (key, value) pairs
known_apps ==
    <<<<<<"n","o","t","e","p","a","d">>,
        <<"n","o","t","e","p","a","d",".","e","x","e">>>>,
      <<<<"p","a","i","n","t">>,
        <<"m","s","p","a","i","n","t",".","e","x","e">>>>,
      <<<<"f","i","l","e"," ","e","x","p","l","o","r","e","r">>,
        <<"e","x","p","l","o","r","e","r",".","e","x","e">>>>,
      <<<<"e","x","p","l","o","r","e","r">>,
        <<"e","x","p","l","o","r","e","r",".","e","x","e">>>>,
      <<<<"c","a","l","c","u","l","a","t","o","r">>,
        <<"c","a","l","c",".","e","x","e">>>>,
      <<<<"w","o","r","d">>,
        <<"w","i","n","w","o","r","d",".","e","x","e">>>>,
      <<<<"e","x","c","e","l">>,
        <<"e","x","c","e","l",".","e","x","e">>>>,
      <<<<"p","o","w","e","r","p","o","i","n","t">>,
        <<"p","o","w","e","r","p","n","t",".","e","x","e">>>>,
      <<<<"o","n","e","n","o","t","e">>,
        <<"o","n","e","n","o","t","e",".","e","x","e">>>>,
      <<<<"o","u","t","l","o","o","k">>,
        <<"o","u","t","l","o","o","k",".","e","x","e">>>>,
      <<<<"e","d","g","e">>,
        <<"m","s","e","d","g","e",".","e","x","e">>>>,
      <<<<"c","h","r","o","m","e">>,
        <<"c","h","r","o","m","e",".","e","x","e">>>>,
      <<<<"c","o","n","t","r","o","l"," ","p","a","n","e","l">>,
        <<"c","o","n","t","r","o","l",".","e","x","e">>>>,
      <<<<"c","m","d">>,
        <<"c","m","d",".","e","x","e">>>>,
      <<<<"t","e","r","m","i","n","a","l">>,
        <<"w","t",".","e","x","e">>>>,
      <<<<"s","t","o","r","e">>,
        <<"m","s","-","w","i","n","d","o","w","s","-","s","t","o","r","e",":">>>>,
      <<<<"s","e","t","t","i","n","g","s">>,
        <<"m","s","-","s","e","t","t","i","n","g","s",":">>>>,
      <<<<"c","a","m","e","r","a">>,
        <<"m","i","c","r","o","s","o","f","t",".","w","i","n","d","o","w","s",".","c","a","m","e","r","a",":">>>>,
      <<<<"p","h","o","t","o","s">>,
        <<"m","s","-","p","h","o","t","o","s",":">>>>,
      <<<<"v","s"," ","c","o","d","e">>,
        <<"v","s","c","o","d","e">>>>,
      <<<<"v","i","s","u","a","l"," ","s","t","u","d","i","o"," ","c","o","d","e">>,
        <<"v","s","c","o","d","e">>>>,
      <<<<"v","i","s","u","a","l","s","t","u","d","i","o"," ","c","o","d","e">>,
        <<"v","s","c","o","d","e">>>>>>
\* lines 329-334, with LOCALAPPDATA at its default
candidates ==
    <<<<"C",":","\\","U","s","e","r","s","\\","D","e","f","a","u","l","t","\\","A","p","p","D","a","t","a","\\","L","o","c","a","l","\\","P","r","o","g","r","a","m","s","\\","M","i","c","r","o","s","o","f","t"," ","V","S"," ","C","o","d","e","\\","C","o","d","e",".","e","x","e">>,
      <<"C",":","\\","P","r","o","g","r","a","m"," ","F","i","l","e","s","\\","M","i","c","r","o","s","o","f","t"," ","V","S"," ","C","o","d","e","\\","C","o","d","e",".","e","x","e">>,
      <<"C",":","\\","P","r","o","g","r","a","m"," ","F","i","l","e","s"," ","(","x","8","6",")","\\","M","i","c","r","o","s","o","f","t"," ","V","S"," ","C","o","d","e","\\","C","o","d","e",".","e","x","e">>>>

known_keys == {known_apps[i][1] : i \in DOMAIN known_apps}
\* known_apps[target]: a dict literal keeps the last value given for a key
known_value(target) ==
    known_apps[SetMax({i \in DOMAIN known_apps : known_apps[i][1] = target})][2]

\* lines 335-343: the loop over the candidate install paths, from the i-th on
RECURSIVE try_candidates(_, _)
try_candidates(i, env) ==
    IF i > Len(candidates) THEN [ok |-> FALSE, ev |-> << >>]
    ELSE LET c == candidates[i]
             look == <<LogEv("Trying VS Code path: {}", c), ExistsEv(env, c)>>
             rest == try_candidates(i + 1, env)
         IN  IF ~Exists(env, c)
             THEN [ok |-> rest.ok, ev |-> look \o rest.ev]
             ELSE IF ~Raises(env, "Popen", c)
             THEN [ok |-> TRUE,
                   ev |-> look \o <<CallEv(env, "Popen", c),
                                    SayEv("Opening Visual Studio Code.", << >>)>>]
             ELSE [ok |-> rest.ok,
                   ev |-> look \o <<CallEv(env, "Popen", c), LogEv("Failed to launch {}", c)>>
                               \o rest.ev]

\* lines 319-353
open_vscode(env) ==
    LET opened == <<SayEv("Opening Visual Studio Code.", << >>)>>
        a == try_launch_executable(P_code, env)
        b == try_launch_executable(P_code_exe, env)
        c == try_candidates(1, env)
        head == <<LogEv("Trying VS Code via 'code' command.", << >>)>>
        d == <<CallEv(env, "os.startfile", P_code)>>
    IN  IF a.ok THEN head \o a.ev \o opened
        ELSE IF b.ok THEN head \o a.ev \o b.ev \o opened
        ELSE IF c.ok THEN head \o a.ev \o b.ev \o c.ev
        ELSE IF ~Raises(env, "os.startfile", P_code)
        THEN head \o a.ev \o b.ev \o c.ev \o d \o opened
        ELSE head \o a.ev \o b.ev \o c.ev \o d
             \o <<LogEv("VS Code startfile fallback failed", << >>),
                  LogEv("Could not open Visual Studio Code.", << >>),
                  SayEv("Sorry, I couldn't open Visual Studio Code.", << >>)>>

\* a mapped launch that goes on to the literal launch after os.startfile
\* has succeeded
open_mapped_no_return(app, target_raw, env) ==
    LET s == <<CallEv(env, "os.startfile", app)>>
        e == try_launch_executable(app, env)
        opened == <<SayEv("Opening {}", target_raw)>>
    IN  IF e.ok
        THEN s \o e.ev \o opened
        ELSE s \o e.ev
             \o <<LogEv("Could not open mapped app {}.", target_raw),
                  SayEv("Sorry, I couldn't open {}.", target_raw)>>
\* lines 355-367
open_mapped(app, target_raw, env) ==
    LET s == <<CallEv(env, "os.startfile", app)>>
        e == try_launch_executable(app, env)
        opened == <<SayEv("Opening {}", target_raw)>>
    IN  IF ~Raises(env, "os.startfile", app) THEN s \o opened
        ELSE IF e.ok
        THEN s \o <<LogEv("startfile for {} failed", app)>> \o e.ev \o opened
        ELSE s \o <<LogEv("startfile for {} failed", app)>> \o e.ev
             \o <<LogEv("Could not open mapped app {}.", target_raw),
                  SayEv("Sorry, I couldn't open {}.", target_raw)>>

\* re.sub(r'^(website|site)\s+', '', target_raw, flags=re.IGNORECASE)
strip_site_keyword(target_raw) ==
    LET low == lower(target_raw)
        n == IF startswith(low, P_website) THEN Len(P_website) - 1
             ELSE IF startswith(low, P_site) THEN Len(P_site) - 1
             ELSE 0
        r == Drop(target_raw, n)
    IN  IF n > 0 THEN Drop(r, LeadingSpaces(r)) ELSE target_raw

\* a last resort that gives up after the literal launch
open_unknown_no_last_resort(target, target_raw, env) ==
    LET w == try_open_website(P_www \o RemoveSpaces(target) \o P_com, env)
        e == try_launch_executable(target_raw, env)
        opened == <<SayEv("Opening {}", target_raw)>>
        h1 == <<LogEv("Not a known app - trying website fallback", << >>)>> \o w.ev
        h2 == h1 \o <<LogEv("Trying to run as command/exe: {}", target_raw)>>
                 \o e.ev
    IN  IF w.ok THEN h1
        ELSE IF e.ok THEN h2 \o opened
        ELSE h2 \o <<LogEv("Could not open: {}", target_raw),
                     SayEv("Sorry, I couldn't open {}.", target_raw)>>
\* lines 369-391. The shell start of line 384 is a second run of the command
\* try_launch_executable ran at line 253: it has an outcome of its own.
open_unknown(target, target_raw, env) ==
    LET w == try_open_website(P_www \o RemoveSpaces(target) \o P_com, env)
        e == try_launch_executable(target_raw, env)
        opened == <<SayEv("Opening {}", target_raw)>>
        h1 == <<LogEv("Not a known app - trying website fallback", << >>)>> \o w.ev
        h2 == h1 \o <<LogEv("Trying to run as command/exe: {}", target_raw)>>
                 \o e.ev
        again == ~Raises(env, "shell start again", target_raw)
        h3 == h2 \o <<[t |-> "call", f |-> "shell start", a |-> target_raw,
                       ok |-> again]>>
    IN  IF w.ok THEN h1
        ELSE IF e.ok THEN h2 \o opened
        ELSE IF again THEN h3 \o opened
        ELSE h3 \o <<LogEv("shell fallback failed for {}", target_raw),
                     LogEv("Could not open: {}", target_raw),
                     SayEv("Sorry, I couldn't open {}.", target_raw)>>

\* open_any_app, lines 263-391: everything one call does, in order
open_any_app(target0, env) ==
    LET target_raw == strip(target0)
        target == lower(target_raw)
        head == <<LogEv("Trying to open: {}", target_raw)>>
        u == try_open_website(target_raw, env)
        stripped == strip_site_keyword(target_raw)
        s == try_open_website(stripped, env)
        lookup == <<[t |-> "query", f |-> "known_apps", a |-> target,
                     ok |-> target \in known_keys]>>
    IN  IF looks_like_url(target_raw)
        THEN IF u.ok THEN head \o u.ev
             ELSE head \o u.ev
                  \o <<LogEv("Could not open website: {}", target_raw),
                       SayEv("Sorry, I couldn't open the website {}.", target_raw)>>
        ELSE IF startswith(target, P_website) \/ startswith(target, P_site)
        THEN IF stripped # << >> /\ s.ok THEN head \o s.ev
             ELSE head \o (IF stripped # << >> THEN s.ev ELSE << >>)
                  \o <<LogEv("Could not parse website target.", << >>),
                       SayEv("Sorry, I couldn't parse that website.", << >>)>>
        ELSE IF target \in known_keys
        THEN IF known_value(target) = P_vscode
             THEN head \o lookup \o open_vscode(env)
             ELSE head \o lookup \o open_mapped(known_value(target), target_raw, env)
        ELSE head \o lookup \o open_unknown(target, target_raw, env)

\* ------------------------------------------------------------------------
\* Text rendering used by the handlers
\* ------------------------------------------------------------------------
Digits2(n) == <<DigitChars[((n \div 10) % 10) + 1], DigitChars[(n % 10) + 1]>>
HourOf(t) == (t % SecondsPerDay) \div (MinutesPerHour * SecondsPerMinute)
MinuteOf(t) == (t % (MinutesPerHour * SecondsPerMinute)) \div SecondsPerMinute
DayOf(t) == t \div SecondsPerDay
\* strftime("%I:%M %p")
strftime_I_M_p(t) ==
    Digits2(IF HourOf(t) % 12 = 0 THEN 12 ELSE HourOf(t) % 12) \o <<":">>
    \o Digits2(MinuteOf(t)) \o <<" ">>
    \o (IF HourOf(t) < 12 THEN <<"A","M">> ELSE <<"P","M">>)
\* the calendar date, rendered as the number of the day since the clock's epoch
strftime_date(t) == <<"d","a","y"," ">> \o Digits2(DayOf(t))
\* strftime('%Y-%m-%d %H:%M')
strftime_Ymd_H_M(t) ==
    strftime_date(t) \o <<" ">> \o Digits2(HourOf(t)) \o <<":">> \o Digits2(MinuteOf(t))
\* strftime('%I:%M %p on %B %d')
strftime_I_M_p_on_B_d(t) ==
    strftime_I_M_p(t) \o <<" ","o","n"," ">> \o strftime_date(t)

\* _sanitize_filename, lines 96-99 (titles stay far below 200 characters)
RECURSIVE CollapseSpaces(_)
CollapseSpaces(s) ==
    IF s = << >> THEN << >>
    ELSE IF IsSpace(Head(s))
         THEN <<" ">> \o CollapseSpaces(Drop(s, LeadingSpaces(s)))
         ELSE <<Head(s)>> \o CollapseSpaces(Tail(s))
_sanitize_filename(s) ==
    strip(CollapseSpaces(SelectSeq(s,
        LAMBDA c : c \notin {"\\", "/", ":", "\"", "*", "?", "<", ">", "|"})))

\* ------------------------------------------------------------------------
\* Bounds and inputs
\* ------------------------------------------------------------------------
\* lines typed into the entry box per run, phrases recognized per run,
\* steps of the wall clock per run
MaxTyped == 2
MaxHeard == 2
MaxTicks == 2
\* the wall clock, in seconds since the midnight before start-up; it starts
\* half a minute before 11:00 and advances half a minute at a time
StartClock == (10 * MinutesPerHour + 59) * SecondsPerMinute + 30
TickSeconds == SecondsPerMinute \div 2

I_remind_stretch == <<"r","e","m","i","n","d"," ","m","e"," ","i","n"," ","1"," ","m","i","n","u","t","e","s"," ","t","o"," ","S","t","r","e","t","c","h">>
I_remind_zero == <<"r","e","m","i","n","d"," ","m","e"," ","i","n"," ","0"," ","m","i","n","u","t","e","s"," ","t","o"," ","x">>
I_remind_overflow == <<"r","e","m","i","n","d"," ","m","e"," ","i","n"," ","9","9","9","9","9","9","9","9","9","9","9"," ","m","i","n","u","t","e","s"," ","t","o"," ","x"," ","a","n","d"," ","t","i","m","e">>
I_cancel_all == <<"c","a","n","c","e","l"," ","a","l","l"," ","r","e","m","i","n","d","e","r","s">>
I_list_then_time == <<"l","i","s","t"," ","r","e","m","i","n","d","e","r","s"," ","t","h","e","n"," ","t","i","m","e">>
I_time == <<"t","i","m","e">>
TypedInputs == {I_remind_stretch, I_remind_zero, I_remind_overflow,
                I_cancel_all, I_list_then_time}
HeardInputs == {I_time, I_remind_overflow}

JOKES == 1..4
NoEnv == [raises |-> {}, absent |-> {}]

\* ------------------------------------------------------------------------
\* State
\* ------------------------------------------------------------------------
VARIABLES
    now,                 \* datetime.now()
    entry,               \* the text in the entry widget
    env,                 \* what the launch primitives do in this run
    typed, heard,        \* lines typed, phrases recognized so far
    pc,                  \* the Tk thread: where it is
    caller,              \* which callback it is running: enter, poll, close
    parts,               \* handle_command: the fragments still to iterate
    frame,               \* schedule_reminder_at: dt, message, timer
    line,                \* the line being handled and what was dispatched of it
    pollPending,         \* root.after(300, process_queue) is outstanding
    closing,             \* on_close has begun
    destroyPending,      \* root.after(300, root.destroy) is outstanding
    command_queue,
    log,                 \* the log widget, one entry per gui_log call
    spoken,              \* every utterance ever put on tts_queue, in put order
    tts_queue,           \* indices into spoken; 0 is the None sentinel
    ttsPc, ttsItem, engine,
    playing,             \* utterances the engine is playing right now
    played,              \* utterances whose playback has completed, in order
    scheduled_reminders,
    timers,              \* the threading.Timer objects, by creation order
    reminder_lock,       \* the thread holding the lock, or "free"
    stop_event, tts_stop_event,
    listener,            \* background_listener: where it is
    notes,               \* the files of NOTES_DIR
    launch               \* what the last open_any_app call did

vars == <<now, entry, env, typed, heard, pc, caller, parts, frame, line,
          pollPending, closing, destroyPending, command_queue, log, spoken,
          tts_queue, ttsPc, ttsItem, engine, playing, played,
          scheduled_reminders, timers, reminder_lock, stop_event,
          tts_stop_event, listener, notes, launch>>

guiVars  == <<pc, caller, parts, frame, line>>
loopVars == <<pollPending, closing, destroyPending>>
outVars  == <<log, spoken, tts_queue>>
ttsVars  == <<ttsPc, ttsItem, engine, playing, played>>
remVars  == <<scheduled_reminders, timers, reminder_lock>>
inVars   == <<entry, env, typed, heard>>

None == 0
NoFrame == [dt |-> 0, message |-> << >>, timer |-> None]
NoLine == [cmd |-> << >>, done |-> << >>]

\* the process lives until root.destroy ends mainloop; the worker threads are
\* daemon threads and end with it
alive == pc # "destroyed"

\* the gui_log lines and the speak() texts among a handler's events
LogsOf(ev) == [i \in 1..Len(SelectSeq(ev, LAMBDA e : e.t = "log")) |->
                 [f |-> SelectSeq(ev, LAMBDA e : e.t = "log")[i].f,
                  a |-> SelectSeq(ev, LAMBDA e : e.t = "log")[i].a]]
SaysOf(ev) == [i \in 1..Len(SelectSeq(ev, LAMBDA e : e.t = "speak")) |->
                 [f |-> SelectSeq(ev, LAMBDA e : e.t = "speak")[i].f,
                  a |-> SelectSeq(ev, LAMBDA e : e.t = "speak")[i].a]]

\* speak, lines 85-91: tts_queue.put(text) for each text, in order
speak(texts) ==
    /\ spoken' = spoken \o texts
    /\ tts_queue' = tts_queue \o [i \in 1..Len(texts) |-> Len(spoken) + i]
\* gui_log, lines 584-588
gui_log(entries) == log' = log \o entries
\* the log lines and utterances of a handler's events reach their sinks
Emit(ev) == gui_log(LogsOf(ev)) /\ speak(SaysOf(ev))

\* what start-up leaves untouched
Quiet ==
    /\ now = StartClock
    /\ typed = 0 /\ heard = 0
    /\ pc = "mainloop" /\ caller = "none" /\ parts = << >>
    /\ frame = NoFrame /\ line = NoLine
    /\ pollPending = TRUE /\ closing = FALSE /\ destroyPending = FALSE
    /\ command_queue = << >>
    /\ ttsItem = None /\ playing = {} /\ played = << >>
    /\ scheduled_reminders = << >> /\ timers = << >> /\ reminder_lock = "free"
    /\ stop_event = FALSE /\ tts_stop_event = FALSE
    /\ launch = << >>

\* main() has started both threads and entered mainloop, lines 609-628
Init ==
    /\ Quiet
    /\ entry = << >> /\ env = NoEnv /\ notes = {}
    /\ log = << >> /\ spoken = << >> /\ tts_queue = << >>
    /\ ttsPc = "start" /\ engine = FALSE
    /\ listener = "start"

\* the log lines and the utterance of background_listener's set-up, lines 523-534
ListenerNoMic == <<LogEv("Microphone not available: {}", << >>),
                   SayEv("Microphone not available.", << >>)>>
ListenerReady == <<LogEv("Calibrating mic for ambient noise...", << >>),
                   LogEv("Listening in background...", << >>),
                   SayEv("VoiceBuddy is now listening.", << >>)>>
TtsStartOutcomes == {"engine", "no pyttsx3", "init raises"}

\* The same, a moment later: the worker is past its imports (tts is how they
\* went) and the listener past its set-up (mic: the microphone opened).
Booted(tts, mic) ==
    /\ Quiet
    /\ log = LogsOf(IF mic THEN ListenerReady ELSE ListenerNoMic)
    /\ spoken = SaysOf(IF mic THEN ListenerReady ELSE ListenerNoMic)
    /\ tts_queue = <<1>>
    /\ ttsPc = IF tts = "init raises" THEN "crashed" ELSE "loop"
    /\ engine = (tts = "engine")
    /\ listener = IF mic THEN "listening" ELSE "exited"

\* ------------------------------------------------------------------------
\* The handlers of handle_single_command, as the outcomes one call can have
\* ------------------------------------------------------------------------
P_note == <<"n","o","t","e">>
P_notepad_exe == <<"n","o","t","e","p","a","d",".","e","x","e">>
P_txt == <<".","t","x","t">>
P_dash == <<" ","-"," ">>
\* an outcome: the events of the call, where the Tk thread goes next, and the
\* locals it carries there
Outcome(ev, next) ==
    [ev |-> ev, next |-> next, frame |-> frame, notes |-> notes, launch |-> launch]

NoteOpeners == {"notepad", "startfile", "neither"}
\* subprocess.Popen(["notepad.exe", path]) with os.startfile as fallback,
\* lines 115-122 and 149-156
OpenInNotepad(path, how, failLog, failSay) ==
    LET p == [t |-> "call", f |-> "Popen", a |-> P_notepad_exe, ok |-> how = "notepad"]
        s == [t |-> "call", f |-> "os.startfile", a |-> path, ok |-> how = "startfile"]
    IN  IF how = "notepad" THEN <<p>>
        ELSE IF how = "startfile" THEN <<p, s>>
        ELSE <<p, s, LogEv(failLog, << >>), SayEv(failSay, << >>)>>

\* strftime("%Y%m%d_%H%M%S")
strftime_stamp(t) ==
    Digits2(DayOf(t)) \o <<"_">> \o Digits2(HourOf(t)) \o Digits2(MinuteOf(t))
    \o Digits2(t % SecondsPerMinute)

\* write_note, lines 101-125
write_note(content, title) ==
    LET preview == SubSeq(content, 1, IF Len(content) < 30 THEN Len(content) ELSE 30)
        safe_title == IF title # << >> THEN _sanitize_filename(title)
                      ELSE IF _sanitize_filename(preview) # << >>
                           THEN _sanitize_filename(preview) ELSE P_note
        filename == safe_title \o P_dash \o strftime_stamp(now) \o P_txt
        saved == {n \in notes : n.name # filename}
                     \cup {[name |-> filename, content |-> content]}
    IN  {[Outcome(<<LogEv("Error saving note: {}", << >>),
                    SayEv("There was an error saving the note.", << >>)>>, "handle")
            EXCEPT !.notes = nt] : nt \in {notes, saved}}
        \cup
        {[Outcome(<<LogEv("Note saved: {}", filename),
                    SayEv("Saved note {}. Opening in Notepad.", safe_title)>>
                  \o OpenInNotepad(filename, how,
                         "Could not open note automatically: {}",
                         "Saved the note but couldn't open it automatically."),
                  "handle")
            EXCEPT !.notes = saved] : how \in NoteOpeners}

\* all orders of a finite set (the model leaves the sort order of file names open)
RECURSIVE Orders(_)
Orders(S) ==
    IF S = {} THEN {<< >>}
    ELSE UNION {{<<x>> \o o : o \in Orders(S \ {x})} : x \in S}

\* list_notes, lines 127-137
list_notes ==
    IF notes = {}
    THEN {Outcome(<<LogEv("No notes found in VoiceBuddyNotes.", << >>),
                    SayEv("You have no notes.", << >>)>>, "handle")}
    ELSE {Outcome(<<LogEv("Notes:", << >>)>>
                  \o [i \in 1..Len(o) |-> LogEv(" - {}", o[i].name)]
                  \o <<SayEv("You have {} note(s).", Digits2(Cardinality(notes)))>>,
                  "handle") : o \in Orders(notes)}

\* open_note_by_name, lines 139-156
open_note_by_name(query0) ==
    LET query == lower(strip(query0))
        matches == {n \in notes : contains(lower(n.name), query)}
    IN  IF matches = {}
        THEN {Outcome(<<LogEv("No note matching '{}' was found.", query),
                        SayEv("I couldn't find a matching note.", << >>)>>, "handle")}
        ELSE {Outcome(<<LogEv("Opening note: {}", n.name),
                        SayEv("Opening note {}", n.name)>>
                      \o OpenInNotepad(n.name, how, "Could not open note: {}",
                                       "I couldn't open the note."),
                      "handle") : n \in matches, how \in NoteOpeners}

\* JOKES[j] stands for the j-th joke of lines 38-43
JokeText(j) == P_joke \o <<" ">> \o Digits2(j)

\* schedule_reminder_in, line 182: datetime.now() + timedelta(minutes=minutes)
\* raises OverflowError when the sum passes datetime.max (year 9999). Eleven
\* digits are at least 10^10 minutes, over 19 000 years; up to nine digits stay
\* below 1 902 years. Ten-digit counts are not among the inputs.
StripZeros(ds) == IF \A i \in 1..Len(ds) : ds[i] = "0" THEN <<"0">>
                  ELSE Drop(ds, SetMin({i \in 1..Len(ds) : ds[i] # "0"}) - 1)
timedelta_overflows(digits) == Len(StripZeros(digits)) >= 11

\* the calls of lines 474-479: schedule_reminder_in up to its call of
\* schedule_reminder_at
schedule_reminder_in(digits, message) ==
    IF timedelta_overflows(digits)
    THEN {Outcome(<< >>, "raise")}
    ELSE {[Outcome(<< >>, "sched_at") EXCEPT
             !.frame = [dt |-> now + IntOf(StripZeros(digits)) * SecondsPerMinute,
                        message |-> message, timer |-> None]]}

\* lines 483-498, up to the call of schedule_reminder_at
remind_at(time_str, message) ==
    LET t == parse_reminder_time(time_str)
        dt == DayOf(now) * SecondsPerDay + t
    IN  IF t < 0
        THEN {Outcome(<<LogEv("Could not parse reminder time.", << >>),
                        SayEv("I couldn't parse the time you gave me.", << >>)>>,
                      "handle")}
        ELSE {[Outcome(<< >>, "sched_at") EXCEPT
                 !.frame = [dt |-> IF dt <= now THEN dt + SecondsPerDay ELSE dt,
                            message |-> message, timer |-> None]]}

\* what the branch of handle_single_command that match_rule selects does
HandlerOutcomes(cmd) ==
    LET r == match_rule(cmd)
    IN  CASE r.rule \in {"write note", "save note"} ->
                IF r.b = << >>
                THEN {Outcome(<<LogEv("No note content provided.", << >>),
                                SayEv("You didn't provide any content for the note.",
                                      << >>)>>, "handle")}
                ELSE write_note(r.b, r.a)
          [] r.rule = "list notes" -> list_notes
          [] r.rule = "open note" ->
                IF r.a = << >>
                THEN {Outcome(<<LogEv("No note name provided to open.", << >>),
                                SayEv("Please tell me the name of the note to open.",
                                      << >>)>>, "handle")}
                ELSE open_note_by_name(r.a)
          [] r.rule = "open" ->
                {[Outcome(open_any_app(r.a, env), "handle") EXCEPT
                    !.launch = open_any_app(r.a, env)]}
          [] r.rule = "joke" ->
                {Outcome(<<LogEv("Joke: {}", JokeText(j)), SayEv("{}", JokeText(j))>>,
                         "handle") : j \in JOKES}
          [] r.rule = "time" ->
                {Outcome(<<SayEv("The time is {}.", strftime_I_M_p(now)),
                           LogEv("Time: {}", strftime_I_M_p(now))>>, "handle")}
          [] r.rule = "date" ->
                {Outcome(<<SayEv("Today's date is {}.", strftime_date(now)),
                           LogEv("Date: {}", strftime_date(now))>>, "handle")}
          [] r.rule = "remind in" -> schedule_reminder_in(r.a, r.b)
          [] r.rule = "remind at" -> remind_at(r.a, r.b)
          [] r.rule = "list reminders" -> {Outcome(<< >>, "list_lock")}
          [] r.rule = "cancel all reminders" -> {Outcome(<< >>, "cancel_lock")}
          [] OTHER ->
                {Outcome(<<LogEv("I didn't understand that.", << >>),
                           SayEv("Sorry, I didn't understand that command.", << >>)>>,
                         "handle")}

\* ------------------------------------------------------------------------
\* The Tk thread: on_enter, process_queue, handle_command, on_close
\* ------------------------------------------------------------------------
\* the user types a line into the entry box
type_text(inputs, max) ==
    /\ alive /\ typed < max /\ entry = << >>
    /\ \E text \in inputs : entry' = text
    /\ typed' = typed + 1
    /\ UNCHANGED <<now, env, heard, guiVars, loopVars, command_queue, outVars,
                   ttsVars, remVars, stop_event, tts_stop_event, listener, notes,
                   launch>>

\* handle_command up to its for loop, line 513
begin_handle_command(cmd, from) ==
    /\ parts' = re_split_conjunctions(cmd)
    /\ line' = [cmd |-> cmd, done |-> << >>]
    /\ caller' = from
    /\ pc' = "handle"

\* VoiceBuddyApp.on_enter, lines 590-594
on_enter ==
    /\ pc = "mainloop" /\ entry # << >>
    /\ entry' = << >>
    /\ IF strip(entry) # << >>
       THEN begin_handle_command(strip(entry), "enter")
       ELSE UNCHANGED <<pc, caller, parts, line>>
    /\ UNCHANGED <<now, env, typed, heard, frame, loopVars, command_queue, outVars,
                   ttsVars, remVars, stop_event, tts_stop_event, listener, notes,
                   launch>>

\* the Tk timer set by root.after(300, self.process_queue) expires
process_queue ==
    /\ pc = "mainloop" /\ pollPending
    /\ pollPending' = FALSE
    /\ pc' = "poll"
    /\ UNCHANGED <<now, inVars, caller, parts, frame, line, closing, destroyPending,
                   command_queue, outVars, ttsVars, remVars, stop_event,
                   tts_stop_event, listener, notes, launch>>

\* one turn of the while loop of process_queue, lines 598-603
process_queue_get ==
    /\ pc = "poll"
    /\ IF command_queue = << >>
       THEN /\ pollPending' = TRUE
            /\ pc' = "mainloop"
            /\ UNCHANGED <<caller, parts, line, command_queue>>
       ELSE /\ command_queue' = Tail(command_queue)
            /\ begin_handle_command(Head(command_queue), "poll")
            /\ UNCHANGED pollPending
    /\ UNCHANGED <<now, inVars, frame, closing, destroyPending, outVars, ttsVars,
                   remVars, stop_event, tts_stop_event, listener, notes, launch>>

\* where a handler returns to
ReturnPc == IF caller = "close" THEN "close_tail" ELSE "handle"

\* handle_single_command, lines 396-510, on a stripped non-empty fragment. An
\* exception leaves handle_command and the callback that called it; Tk reports
\* it and mainloop goes on.
handle_single_command(cmd) ==
    \E o \in HandlerOutcomes(cmd) :
        /\ line' = [line EXCEPT !.done =
                       Append(@, [cmd |-> cmd, rule |-> match_rule(cmd).rule])]
        /\ Emit(<<LogEv("Command: {}", cmd)>> \o o.ev)
        /\ IF o.next = "raise"
           THEN pc' = "mainloop" /\ parts' = << >>
           ELSE pc' = o.next /\ parts' = Tail(parts)
        /\ frame' = o.frame
        /\ notes' = o.notes
        /\ launch' = o.launch

\* one turn of the for loop of handle_command, lines 514-516
handle_command ==
    /\ pc = "handle"
    /\ IF parts = << >>
       THEN /\ pc' = IF caller = "poll" THEN "poll" ELSE "mainloop"
            /\ UNCHANGED <<parts, frame, line, outVars, notes, launch>>
       ELSE IF strip(Head(parts)) = << >>
       THEN /\ parts' = Tail(parts)
            /\ UNCHANGED <<pc, frame, line, outVars, notes, launch>>
       ELSE handle_single_command(strip(Head(parts)))
    /\ UNCHANGED <<now, inVars, caller, loopVars, command_queue, ttsVars, remVars,
                   stop_event, tts_stop_event, listener>>

\* threading.Timer(delay, _reminder_action, args=(message, gui_log)), started;
\* canceled records that cancel() was called on it
NewTimer(delay, message) ==
    [due |-> now + delay, interval |-> delay, message |-> message,
     finished |-> FALSE, canceled |-> FALSE, st |-> "waiting", fires |-> 0]

\* a past-time test that lets a delay of zero through
in_the_past_strictly(delay) == delay < 0
\* "if delay <= 0", line 168
in_the_past(delay) == delay <= 0

\* schedule_reminder_at, lines 166-174
schedule_reminder_at ==
    /\ pc = "sched_at"
    /\ LET delay == frame.dt - now
       IN  IF in_the_past(delay)
           THEN /\ Emit(<<LogEv("Reminder time is in the past.", << >>),
                          SayEv("I can't set a reminder in the past.", << >>)>>)
                /\ frame' = NoFrame
                /\ pc' = ReturnPc
                /\ UNCHANGED timers
           ELSE /\ timers' = Append(timers, NewTimer(delay, frame.message))
                /\ frame' = [frame EXCEPT !.timer = Len(timers) + 1]
                /\ pc' = "sched_lock"
                /\ UNCHANGED outVars
    /\ UNCHANGED <<now, inVars, caller, parts, line, loopVars, command_queue, ttsVars,
                   scheduled_reminders, reminder_lock, stop_event, tts_stop_event,
                   listener, notes, launch>>

\* a "with" that enters its block without taking the lock
acquire_reminder_lock_not_taken ==
    /\ pc \in {"sched_lock", "list_lock", "cancel_lock"}
    /\ pc' = CASE pc = "sched_lock" -> "sched_append"
               [] pc = "list_lock" -> "list_body"
               [] pc = "cancel_lock" -> "cancel_body"
    /\ UNCHANGED <<now, inVars, caller, parts, frame, line, loopVars, command_queue,
                   outVars, ttsVars, scheduled_reminders, timers, reminder_lock,
                   stop_event, tts_stop_event, listener, notes, launch>>
\* "with reminder_lock:" of lines 175, 186 and 197
acquire_reminder_lock ==
    /\ pc \in {"sched_lock", "list_lock", "cancel_lock"}
    /\ reminder_lock = "free"
    /\ reminder_lock' = "tk"
    /\ pc' = CASE pc = "sched_lock" -> "sched_append"
               [] pc = "list_lock" -> "list_body"
               [] pc = "cancel_lock" -> "cancel_body"
    /\ UNCHANGED <<now, inVars, caller, parts, frame, line, loopVars, command_queue,
                   outVars, ttsVars, scheduled_reminders, timers, stop_event,
                   tts_stop_event, listener, notes, launch>>

\* schedule_reminder_at, lines 176-179
schedule_reminder_append ==
    /\ pc = "sched_append"
    /\ scheduled_reminders' = Append(scheduled_reminders,
           [time |-> frame.dt, message |-> frame.message, timer |-> frame.timer])
    /\ reminder_lock' = "free"
    /\ Emit(<<LogEv("Reminder scheduled at {}",
                    strftime_Ymd_H_M(frame.dt) \o <<":", " ">> \o frame.message),
              SayEv("Reminder set for {}.", strftime_I_M_p_on_B_d(frame.dt))>>)
    /\ frame' = NoFrame
    /\ pc' = ReturnPc
    /\ UNCHANGED <<now, inVars, caller, parts, line, loopVars, command_queue, ttsVars,
                   timers, stop_event, tts_stop_event, listener, notes, launch>>

\* list_reminders, lines 187-194
list_reminders ==
    /\ pc = "list_body"
    /\ IF scheduled_reminders = << >>
       THEN Emit(<<LogEv("No reminders scheduled.", << >>),
                   SayEv("You have no reminders.", << >>)>>)
       ELSE Emit(<<LogEv("Scheduled reminders:", << >>)>>
                 \o [i \in 1..Len(scheduled_reminders) |->
                       LogEv(" - {}",
                             strftime_Ymd_H_M(scheduled_reminders[i].time)
                             \o <<" ", ":", " ">> \o scheduled_reminders[i].message)]
                 \o <<SayEv("You have {} reminder(s).",
                            Digits2(Len(scheduled_reminders)))>>)
    /\ reminder_lock' = "free"
    /\ pc' = ReturnPc
    /\ UNCHANGED <<now, inVars, caller, parts, frame, line, loopVars, command_queue,
                   ttsVars, scheduled_reminders, timers, stop_event, tts_stop_event,
                   listener, notes, launch>>

\* a clear() that removes nothing
clear_nothing(list) == list
\* list.clear(), line 203
clear(list) == << >>

\* cancel_all_reminders, lines 197-203: Timer.cancel sets the timer's
\* finished event
cancel_all_reminders ==
    /\ pc = "cancel_body"
    /\ timers' = [i \in DOMAIN timers |->
                    IF \E k \in DOMAIN scheduled_reminders :
                           scheduled_reminders[k].timer = i
                    THEN [timers[i] EXCEPT !.finished = TRUE, !.canceled = TRUE]
                    ELSE timers[i]]
    /\ scheduled_reminders' = clear(scheduled_reminders)
    /\ reminder_lock' = "free"
    /\ pc' = "cancel_tail"
    /\ UNCHANGED <<now, inVars, caller, parts, frame, line, loopVars, command_queue,
                   outVars, ttsVars, stop_event, tts_stop_event, listener, notes,
                   launch>>

\* cancel_all_reminders, lines 204-205
cancel_all_reminders_report ==
    /\ pc = "cancel_tail"
    /\ Emit(<<LogEv("All reminders canceled.", << >>),
              SayEv("All reminders have been canceled.", << >>)>>)
    /\ pc' = ReturnPc
    /\ UNCHANGED <<now, inVars, caller, parts, frame, line, loopVars, command_queue,
                   ttsVars, remVars, stop_event, tts_stop_event, listener, notes,
                   launch>>

\* an on_close that leaves stop_event as it is
on_close_no_stop_signal ==
    /\ pc = "mainloop" /\ ~closing
    /\ closing' = TRUE
    /\ caller' = "close"
    /\ pc' = "cancel_lock"
    /\ UNCHANGED <<now, inVars, parts, frame, line, pollPending, destroyPending,
                   command_queue, outVars, ttsVars, remVars, stop_event,
                   tts_stop_event, listener, notes, launch>>
\* main.on_close, lines 618-619
on_close ==
    /\ pc = "mainloop" /\ ~closing
    /\ closing' = TRUE
    /\ stop_event' = TRUE
    /\ caller' = "close"
    /\ pc' = "cancel_lock"
    /\ UNCHANGED <<now, inVars, parts, frame, line, pollPending, destroyPending,
                   command_queue, outVars, ttsVars, remVars, tts_stop_event, listener,
                   notes, launch>>

\* main.on_close, lines 620-625
on_close_finish ==
    /\ pc = "close_tail"
    /\ tts_stop_event' = TRUE
    /\ tts_queue' = Append(tts_queue, None)
    /\ destroyPending' = TRUE
    /\ caller' = "none"
    /\ pc' = "mainloop"
    /\ UNCHANGED <<now, inVars, parts, frame, line, pollPending, closing,
                   command_queue, log, spoken, ttsVars, remVars, stop_event, listener,
                   notes, launch>>

\* root.destroy, 300 ms after on_close: mainloop returns and the process ends
destroy ==
    /\ pc = "mainloop" /\ destroyPending
    /\ pc' = "destroyed"
    /\ UNCHANGED <<now, inVars, caller, parts, frame, line, loopVars, command_queue,
                   outVars, ttsVars, remVars, stop_event, tts_stop_event, listener,
                   notes, launch>>

\* ------------------------------------------------------------------------
\* Reminder timer threads (threading.Timer.run)
\* ------------------------------------------------------------------------
\* finished.wait(interval) times out and finished is found unset
timer_wake(i) ==
    /\ alive
    /\ timers[i].st = "waiting" /\ ~timers[i].finished /\ now >= timers[i].due
    /\ timers' = [timers EXCEPT ![i].st = "running"]
    /\ UNCHANGED <<now, inVars, guiVars, loopVars, command_queue, outVars, ttsVars,
                   scheduled_reminders, reminder_lock, stop_event, tts_stop_event,
                   listener, notes, launch>>

\* _reminder_action, lines 161-163, then Timer.run sets finished
_reminder_action(i) ==
    /\ alive
    /\ timers[i].st = "running"
    /\ Emit(<<SayEv("Reminder: {}", timers[i].message),
              LogEv("Reminder triggered: {}", timers[i].message)>>)
    /\ timers' = [timers EXCEPT ![i].st = "done", ![i].finished = TRUE,
                                ![i].fires = @ + 1]
    /\ UNCHANGED <<now, inVars, guiVars, loopVars, command_queue, ttsVars,
                   scheduled_reminders, reminder_lock, stop_event, tts_stop_event,
                   listener, notes, launch>>

\* ------------------------------------------------------------------------
\* tts_worker, lines 48-78
\* ------------------------------------------------------------------------
\* lines 49-52 and 62: import pyttsx3, pyttsx3.init()
tts_worker_start(outcomes) ==
    /\ alive /\ ttsPc = "start"
    /\ \E o \in outcomes :
          /\ engine' = (o = "engine")
          /\ ttsPc' = IF o = "init raises" THEN "crashed" ELSE "loop"
    /\ UNCHANGED <<now, inVars, guiVars, loopVars, command_queue, outVars, ttsItem,
                   playing, played, remVars, stop_event, tts_stop_event, listener,
                   notes, launch>>

\* where the worker goes when its loop ends: engine.stop() or the return
TtsEnd == IF engine THEN "stop" ELSE "exited"

\* "while not tts_stop_event.is_set()", lines 53 and 63
tts_worker_check ==
    /\ alive /\ ttsPc = "loop"
    /\ ttsPc' = IF tts_stop_event THEN TtsEnd ELSE "get"
    /\ UNCHANGED <<now, inVars, guiVars, loopVars, command_queue, outVars, ttsItem,
                   engine, playing, played, remVars, stop_event, tts_stop_event,
                   listener, notes, launch>>

\* tts_queue.get(timeout=0.5) and the test for None, lines 54-59 and 64-69
tts_worker_get ==
    /\ alive /\ ttsPc = "get"
    /\ IF tts_queue = << >>
       THEN ttsPc' = "loop" /\ UNCHANGED <<tts_queue, ttsItem>>
       ELSE /\ tts_queue' = Tail(tts_queue)
            /\ IF Head(tts_queue) = None
               THEN ttsPc' = TtsEnd /\ UNCHANGED ttsItem
               ELSE IF engine
               THEN ttsPc' = "say" /\ ttsItem' = Head(tts_queue)
               ELSE ttsPc' = "loop" /\ UNCHANGED ttsItem
    /\ UNCHANGED <<now, inVars, guiVars, loopVars, command_queue, log, spoken, engine,
                   playing, played, remVars, stop_event, tts_stop_event, listener,
                   notes, launch>>

\* engine.say(text) and the start of engine.runAndWait(), lines 71-72: the
\* device starts on the utterance, or the engine raises before it does
tts_worker_say(outcomes) ==
    /\ alive /\ ttsPc = "say"
    /\ \E ok \in outcomes :
          IF ok THEN playing' = playing \cup {ttsItem} /\ ttsPc' = "run"
          ELSE ttsPc' = "loop" /\ UNCHANGED playing
    /\ UNCHANGED <<now, inVars, guiVars, loopVars, command_queue, outVars, ttsItem,
                   engine, played, remVars, stop_event, tts_stop_event, listener,
                   notes, launch>>

\* a worker that goes on to the next item while the device still plays
tts_worker_played_no_wait(outcomes) ==
    /\ alive /\ ttsPc = "run"
    /\ playing' = playing
    /\ \E ok \in outcomes :
          IF ok THEN played' = Append(played, ttsItem) ELSE UNCHANGED played
    /\ ttsPc' = "loop"
    /\ UNCHANGED <<now, inVars, guiVars, loopVars, command_queue, outVars, ttsItem,
                   engine, remVars, stop_event, tts_stop_event, listener, notes,
                   launch>>

\* engine.runAndWait() returns, the utterance played to its end, or raises
tts_worker_played(outcomes) ==
    /\ alive /\ ttsPc = "run"
    /\ playing' = playing \ {ttsItem}
    /\ \E ok \in outcomes :
          IF ok THEN played' = Append(played, ttsItem) ELSE UNCHANGED played
    /\ ttsPc' = "loop"
    /\ UNCHANGED <<now, inVars, guiVars, loopVars, command_queue, outVars, ttsItem,
                   engine, remVars, stop_event, tts_stop_event, listener, notes,
                   launch>>

\* engine.stop(), lines 75-78
tts_worker_stop ==
    /\ alive /\ ttsPc = "stop"
    /\ ttsPc' = "exited"
    /\ UNCHANGED <<now, inVars, guiVars, loopVars, command_queue, outVars, ttsItem,
                   engine, playing, played, remVars, stop_event, tts_stop_event,
                   listener, notes, launch>>

\* ------------------------------------------------------------------------
\* background_listener, lines 521-554
\* ------------------------------------------------------------------------
\* lines 522-534: the microphone opens, or does not
background_listener_start(outcomes) ==
    /\ alive /\ listener = "start"
    /\ \E mic \in outcomes :
          IF mic THEN Emit(ListenerReady) /\ listener' = "listening"
          ELSE Emit(ListenerNoMic) /\ listener' = "exited"
    /\ UNCHANGED <<now, inVars, guiVars, loopVars, command_queue, ttsVars, remVars,
                   stop_event, tts_stop_event, notes, launch>>

RecognizeOutcomes == {"text", "UnknownValueError", "RequestError"}
\* callback, lines 536-547, on one captured phrase
callback(inputs, outcomes, max) ==
    /\ alive /\ listener = "listening" /\ heard < max
    /\ heard' = heard + 1
    /\ IF stop_event
       THEN UNCHANGED <<command_queue, outVars>>
       ELSE \E o \in outcomes :
            IF o = "text"
            THEN \E text \in inputs :
                    /\ Emit(<<LogEv("Heard: {}", text)>>)
                    /\ command_queue' = Append(command_queue, text)
            ELSE IF o = "UnknownValueError"
            THEN /\ Emit(<<LogEv("Could not understand audio.", << >>)>>)
                 /\ UNCHANGED command_queue
            ELSE /\ Emit(<<LogEv("Recognition service error: {}", << >>),
                           SayEv("Speech recognition service error.", << >>)>>)
                 /\ UNCHANGED command_queue
    /\ UNCHANGED <<now, entry, env, typed, guiVars, loopVars, ttsVars, remVars,
                   stop_event, tts_stop_event, listener, notes, launch>>

\* lines 551-554: the loop sees stop_event and stops listening
background_listener_stop ==
    /\ alive /\ listener = "listening" /\ stop_event
    /\ Emit(<<LogEv("Listener stopped.", << >>)>>)
    /\ listener' = "exited"
    /\ UNCHANGED <<now, inVars, guiVars, loopVars, command_queue, ttsVars, remVars,
                   stop_event, tts_stop_event, notes, launch>>

\* ------------------------------------------------------------------------
\* The wall clock
\* ------------------------------------------------------------------------
Tick(max) ==
    /\ alive
    /\ now < StartClock + max * TickSeconds
    /\ now' = now + TickSeconds
    /\ UNCHANGED <<inVars, guiVars, loopVars, command_queue, outVars, ttsVars,
                   remVars, stop_event, tts_stop_event, listener, notes, launch>>

\* ------------------------------------------------------------------------
\* The whole program
\* ------------------------------------------------------------------------
\* the callbacks Tk runs for a line: on_enter and the handlers it reaches
Handlers ==
    \/ on_enter
    \/ handle_command
    \/ schedule_reminder_at
    \/ acquire_reminder_lock
    \/ schedule_reminder_append
    \/ list_reminders
    \/ cancel_all_reminders
    \/ cancel_all_reminders_report

Timers ==
    \/ \E i \in DOMAIN timers : timer_wake(i)
    \/ \E i \in DOMAIN timers : _reminder_action(i)

Shutdown ==
    \/ on_close
    \/ on_close_finish
    \/ destroy

Worker(outcomes) ==
    \/ tts_worker_check
    \/ tts_worker_get
    \/ tts_worker_say(outcomes)
    \/ tts_worker_played(outcomes)

Next ==
    \/ type_text(TypedInputs, MaxTyped)
    \/ Handlers
    \/ process_queue
    \/ process_queue_get
    \/ Shutdown
    \/ Timers
    \/ tts_worker_start(TtsStartOutcomes)
    \/ Worker(BOOLEAN)
    \/ tts_worker_stop
    \/ background_listener_start(BOOLEAN)
    \/ callback(HeardInputs, RecognizeOutcomes, MaxHeard)
    \/ background_listener_stop
    \/ Tick(MaxTicks)

Spec == Init /\ [][Next]_vars

\* ------------------------------------------------------------------------
\* The reminder scheduler at work: lines typed one after the other while the
\* clock runs and the timers fire
\* ------------------------------------------------------------------------
ReminderInputs == {I_remind_stretch, I_remind_zero, I_cancel_all, I_list_then_time}
InitReminders ==
    /\ Booted("engine", TRUE)
    /\ entry = << >> /\ env = NoEnv /\ notes = {}
NextReminders ==
    \/ type_text(ReminderInputs, MaxTyped)
    \/ Handlers
    \/ Timers
    \/ Worker({TRUE})
    \/ Tick(MaxTicks)
SpecReminders == InitReminders /\ [][NextReminders]_vars

PastLog == [f |-> "Reminder time is in the past.", a |-> << >>]
PastSay == [f |-> "I can't set a reminder in the past.", a |-> << >>]
\* the Tk thread takes the step of schedule_reminder_at that reads the clock
SchedulerDecides == pc = "sched_at" /\ pc' # pc

\* C2: when schedule_reminder_at is called with a time that is not strictly
\* after the clock, it creates no timer, leaves the registry as it is, emits
\* exactly one rejection log line and one rejection utterance and returns no
\* timer; and every entry of the registry belongs to a timer created with a
\* strictly positive delay.
C2_PastTimeRejected ==
    /\ [][(SchedulerDecides /\ frame.dt <= now) =>
            /\ timers' = timers
            /\ scheduled_reminders' = scheduled_reminders
            /\ log' = Append(log, PastLog)
            /\ spoken' = Append(spoken, PastSay)
            /\ tts_queue' = Append(tts_queue, Len(spoken) + 1)
            /\ frame'.timer = None
            /\ pc' = ReturnPc]_vars
    /\ [](\A k \in DOMAIN scheduled_reminders :
             /\ scheduled_reminders[k].timer \in DOMAIN timers
             /\ timers[scheduled_reminders[k].timer].interval > 0)
\* a past time was rejected, and a future one was registered
C2_Witness ==
    /\ \E i \in DOMAIN log : log[i] = PastLog
    /\ scheduled_reminders # << >>

CanceledLog == [f |-> "All reminders canceled.", a |-> << >>]
TriggeredLog(m) == [f |-> "Reminder triggered: {}", a |-> m]
\* C4: when cancel_all_reminders returns the registry is empty; no reminder's
\* firing action runs more than once, whatever the interleaving; and a
\* reminder that has fired stays fired, exactly once, through any later step.
C4_CancelAllEmptiesFiresOnce ==
    /\ [][(pc = "cancel_tail" /\ pc' # pc) => scheduled_reminders' = << >>]_vars
    /\ [](\A i \in DOMAIN timers : timers[i].fires <= 1)
    /\ [][\A i \in DOMAIN timers :
             timers[i].fires = 1 =>
                 timers'[i].fires = 1 /\ timers'[i].st = "done"]_vars
\* a reminder fired, and afterwards cancel_all_reminders ran to its end
C4_Witness ==
    \E i, j \in DOMAIN log :
        /\ i < j
        /\ log[i].f = "Reminder triggered: {}"
        /\ log[j] = CanceledLog
        /\ pc = "handle"
        /\ \E k \in DOMAIN timers : timers[k].fires = 1

\* C5: the registry holds only reminders that are still scheduled - none
\* whose firing action has run.
C5_RegistryOnlyScheduled ==
    \A k \in DOMAIN scheduled_reminders :
        timers[scheduled_reminders[k].timer].fires = 0

\* C17: a reminder that cancel_all_reminders has canceled never runs its
\* firing action afterwards, a reminder that has fired is never canceled
\* afterwards, and no reminder is both canceled and fired.
C17_EndStatesTerminal ==
    /\ [][\A i \in DOMAIN timers :
             timers[i].canceled => timers'[i].fires = timers[i].fires]_vars
    /\ [][\A i \in DOMAIN timers :
             timers[i].fires > 0 => timers'[i].canceled = timers[i].canceled]_vars
    /\ [](\A i \in DOMAIN timers : ~(timers[i].canceled /\ timers[i].fires > 0))

\* the message of a "remind me in N minutes to M" line, as it was typed
SubmittedMessage(cmd) ==
    strip(Drop(cmd, Len(cmd) - Len(match_remind_in(lower(cmd)).g2)))
\* C6: every reminder in the registry carries the message of a submitted
\* "remind me in N minutes to M" line character for character, and that is
\* the text its firing logs.
C6_MessageAsSubmitted ==
    /\ \A k \in DOMAIN scheduled_reminders :
          \E c \in ReminderInputs :
              /\ match_remind_in(lower(c)).ok
              /\ scheduled_reminders[k].message = SubmittedMessage(c)
    /\ \A i \in DOMAIN log :
          log[i].f = "Reminder triggered: {}" =>
              \E c \in ReminderInputs :
                  /\ match_remind_in(lower(c)).ok
                  /\ log[i].a = SubmittedMessage(c)

\* ------------------------------------------------------------------------
\* The router at work: one line after the other through on_enter, every rule
\* of handle_single_command among them
\* ------------------------------------------------------------------------
I_write_note == <<"w","r","i","t","e"," ","n","o","t","e"," ","G","r","o","c","e","r","i","e","s",":"," ","m","i","l","k">>
I_save_note_joke == <<"s","a","v","e"," ","n","o","t","e"," ","a"," ","j","o","k","e">>
I_list_notes == <<"l","i","s","t"," ","n","o","t","e","s">>
I_open_note == <<"o","p","e","n"," ","n","o","t","e"," ","g","r","o","c","e","r","i","e","s">>
I_open_notepad == <<"o","p","e","n"," ","n","o","t","e","p","a","d">>
I_open_joke == <<"o","p","e","n"," ","j","o","k","e">>
I_open_bare == <<"o","p","e","n">>
I_joke == <<"T","e","l","l"," ","m","e"," ","a"," ","j","o","k","e">>
I_date == <<"d","a","t","e">>
I_what_time == <<"w","h","a","t"," ","t","i","m","e"," ","i","s"," ","i","t">>
I_remind_joke == <<"r","e","m","i","n","d"," ","m","e"," ","i","n"," ","5"," ","m","i","n","u","t","e","s"," ","t","o"," ","t","e","l","l"," ","a"," ","j","o","k","e">>
I_remind_at == <<"r","e","m","i","n","d"," ","m","e"," ","a","t"," ","1","0",":","3","0"," ","t","o"," ","c","a","l","l">>
I_list_reminders == <<"l","i","s","t"," ","r","e","m","i","n","d","e","r","s">>
I_compound == <<"l","i","s","t"," ","n","o","t","e","s"," ","A","N","D"," ","t","i","m","e"," ","t","h","e","n"," ","d","a","t","e">>
RouterInputs ==
    {I_write_note, I_save_note_joke, I_list_notes, I_open_note, I_open_notepad,
     I_open_joke, I_open_bare, I_joke, I_date, I_what_time, I_remind_joke,
     I_remind_at, I_list_reminders, I_compound, I_remind_stretch,
     I_remind_overflow, I_cancel_all, I_time}
InitRouter ==
    /\ Booted("engine", TRUE)
    /\ entry = << >> /\ env = NoEnv /\ notes = {}
NextRouter ==
    \/ type_text(RouterInputs, MaxTyped)
    \/ Handlers
SpecRouter == InitRouter /\ [][NextRouter]_vars

\* the fragments handed to handle_single_command for the current line so far
Dispatched == [i \in DOMAIN line.done |-> line.done[i].cmd]
\* handle_command is over for the current line
LineOver == pc = "mainloop" /\ line # NoLine

\* C1: when handle_command is over for a line, each non-empty fragment of the
\* line has been dispatched to handle_single_command exactly once, in
\* left-to-right order, whatever the fragments did.
C1_EveryFragmentDispatched == LineOver => Dispatched = Fragments(line.cmd)

\* the rules in the order the specification gives them, each with the branches of
\* the chain it stands for
ClaimedOrder == <<"note-write", "note-list", "note-open", "open", "joke", "time",
                  "date", "reminder-relative", "reminder-absolute",
                  "list-reminders", "cancel-all-reminders">>
BranchesOf(rule) ==
    CASE rule = "note-write" -> {"write note", "save note"}
      [] rule = "note-list" -> {"list notes"}
      [] rule = "note-open" -> {"open note"}
      [] rule = "reminder-relative" -> {"remind in"}
      [] rule = "reminder-absolute" -> {"remind at"}
      [] rule = "list-reminders" -> {"list reminders"}
      [] rule = "cancel-all-reminders" -> {"cancel all reminders"}
      [] rule = "fallback" -> {"unrecognized"}
      [] OTHER -> {rule}
\* the test each rule puts to the lower-cased sub-command
RuleTest(rule, low) ==
    CASE rule = "note-write" -> startswith(low, P_write_note) \/ startswith(low, P_save_note)
      [] rule = "note-list" -> startswith(low, P_list_notes)
      [] rule = "note-open" -> startswith(low, P_open_note)
      [] rule = "open" -> startswith(low, P_open)
      [] rule = "joke" -> contains(low, P_joke)
      [] rule = "time" -> low = P_time
      [] rule = "date" -> low = P_date
      [] rule = "reminder-relative" -> match_remind_in(low).ok
      [] rule = "reminder-absolute" -> match_remind_at(low).ok
      [] rule = "list-reminders" -> low = P_list_reminders
      [] rule = "cancel-all-reminders" -> low = P_cancel_all_reminders
FirstRule(low) ==
    LET hits == {i \in DOMAIN ClaimedOrder : RuleTest(ClaimedOrder[i], low)}
    IN  IF hits = {} THEN "fallback" ELSE ClaimedOrder[SetMin(hits)]
FallbackLog == [f |-> "I didn't understand that.", a |-> << >>]
FallbackSay == [f |-> "Sorry, I didn't understand that command.", a |-> << >>]
Added(old, new) == {new[i] : i \in (Len(old) + 1)..Len(new)}

\* C10: each dispatch of a non-empty sub-command runs one handler, that of
\* the first rule the sub-command matches in the order note-write, note-list,
\* note-open, open, joke, time, date, reminder-relative, reminder-absolute,
\* list-reminders, cancel-all-reminders; the "unrecognized" log line and the
\* spoken apology are emitted in that step if and only if no rule matches.
C10_FirstMatchingRuleWins ==
    [][Len(line'.done) > Len(line.done) =>
         \E first \in {FirstRule(lower(line'.done[Len(line'.done)].cmd))} :
             /\ Len(line'.done) = Len(line.done) + 1
             /\ line'.done[Len(line'.done)].rule \in BranchesOf(first)
             /\ (FallbackLog \in Added(log, log')) <=> (first = "fallback")
             /\ (FallbackSay \in Added(spoken, spoken')) <=> (first = "fallback")]_vars
\* a sub-command that passes the tests of two rules has been dispatched, and
\* so has one that passes none
C10_Witness ==
    /\ \E i \in DOMAIN line.done :
          Cardinality({k \in DOMAIN ClaimedOrder :
                         RuleTest(ClaimedOrder[k], lower(line.done[i].cmd))}) >= 2
    /\ \E i \in DOMAIN log : log[i] = FallbackLog

\* ------------------------------------------------------------------------
\* Speech from three threads: recognized phrases set reminders (the Tk thread
\* confirms each), the reminders fire (their timer threads announce them),
\* recognition fails (the listener thread says so), and the worker plays
\* what was queued, or fails to
\* ------------------------------------------------------------------------
\* phrases the listener captures per run
MaxPhrases == 1
SpeechInputs == {I_remind_stretch}
SpeechOutcomes == {"text", "RequestError"}
InitSpeech ==
    /\ Booted("engine", TRUE)
    /\ entry = << >> /\ env = NoEnv /\ notes = {}
NextSpeech ==
    \/ callback(SpeechInputs, SpeechOutcomes, MaxPhrases)
    \/ process_queue
    \/ process_queue_get
    \/ handle_command
    \/ schedule_reminder_at
    \/ acquire_reminder_lock
    \/ schedule_reminder_append
    \/ Timers
    \/ Worker(BOOLEAN)
    \/ Tick(MaxTicks)
SpecSpeech == InitSpeech /\ [][NextSpeech]_vars

\* C3: utterances are numbered in the order speak submitted them. At no time
\* does the device play two utterances; playbacks complete in submission
\* order; and an utterance is played only after every playback of an earlier
\* submission has completed.
C3_PlaybackSerialFifo ==
    /\ Cardinality(playing) <= 1
    /\ \A i, j \in DOMAIN played : i < j => played[i] < played[j]
    /\ \A r2 \in playing : \A i \in DOMAIN played : played[i] < r2
    /\ \A r \in playing \cup Range(played) : r \in DOMAIN spoken
\* the listener thread's and the Tk thread's utterances have played and that
\* of a reminder's timer thread is playing
C3_Witness ==
    /\ Len(played) >= 2
    /\ spoken[played[1]].f = "VoiceBuddy is now listening."
    /\ \E r \in playing : spoken[r].f = "Reminder: {}"

\* ------------------------------------------------------------------------
\* The command queue at work: recognized phrases queue up and the poll
\* dispatches them, while the worker plays what the handlers say
\* ------------------------------------------------------------------------
QueueInputs == {I_time, I_remind_overflow}
InitQueue ==
    /\ Booted("engine", TRUE)
    /\ entry = << >> /\ env = NoEnv /\ notes = {}
NextQueue ==
    \/ callback(QueueInputs, RecognizeOutcomes, MaxHeard)
    \/ process_queue
    \/ process_queue_get
    \/ handle_command
    \/ Worker(BOOLEAN)
SpecQueue == InitQueue /\ [][NextQueue]_vars

\* C9: while the window is open and the Tk thread is idle in mainloop, a call
\* of process_queue is outstanding - whatever the commands handled so far did,
\* the poll has been rescheduled.
C9_PollAlwaysRescheduled == (pc = "mainloop" /\ ~closing) => pollPending

\* ------------------------------------------------------------------------
\* Launch resolution at work: an "open ..." line is typed in a run where any
\* of the launch primitives it can reach may raise and any of the VS Code
\* install paths may be missing
\* ------------------------------------------------------------------------
I_open_vs_code == <<"o","p","e","n"," ","v","s"," ","c","o","d","e">>
I_open_visual_studio_code == <<"o","p","e","n"," ","V","i","s","u","a","l"," ","S","t","u","d","i","o"," ","C","o","d","e">>
I_open_example_com == <<"o","p","e","n"," ","e","x","a","m","p","l","e",".","c","o","m">>
I_open_http_upper == <<"o","p","e","n"," ","H","T","T","P",":","/","/","E","x","a","m","p","l","e",".","c","o","m","/","a"," ","b">>
I_open_paint == <<"o","p","e","n"," ","P","a","i","n","t">>
P_mspaint_exe == <<"m","s","p","a","i","n","t",".","e","x","e">>
\* "open" lines typed per run
MaxLaunches == 1
LaunchInputs == {I_open_vs_code, I_open_visual_studio_code, I_open_example_com,
                 I_open_http_upper, I_open_paint}
VsCodeCalls ==
    {<<"Popen", P_code>>, <<"shell start", P_code>>,
     <<"Popen", P_code_exe>>, <<"shell start", P_code_exe>>,
     <<"os.startfile", P_code>>}
    \cup {<<"Popen", c>> : c \in Range(candidates)}
OtherCalls ==
    {<<"webbrowser.open", normalize_website(match_rule(i).a)>> :
        i \in {I_open_example_com, I_open_http_upper}}
    \cup {<<"os.startfile", P_mspaint_exe>>, <<"Popen", P_mspaint_exe>>,
          <<"shell start", P_mspaint_exe>>}
LaunchEnvs ==
    [raises : SUBSET VsCodeCalls, absent : SUBSET Range(candidates)]
    \cup [raises : SUBSET OtherCalls, absent : {{}}]
InitLaunch ==
    /\ Booted("engine", TRUE)
    /\ entry = << >> /\ notes = {}
    /\ env \in LaunchEnvs
NextLaunch ==
    \/ type_text(LaunchInputs, MaxLaunches)
    \/ on_enter
    \/ handle_command
SpecLaunch == InitLaunch /\ [][NextLaunch]_vars

\* the launch primitives the last open_any_app call invoked, in order
Calls(ev) ==
    LET c == SelectSeq(ev, LAMBDA e : e.t = "call")
    IN  [i \in DOMAIN c |-> <<c[i].f, c[i].a>>]
\* the target of the last open_any_app call, lower-cased as line 267 does
LaunchTarget == lower(launch[1].a)
VsCodeKeys == {k \in known_keys : known_value(k) = P_vscode}
ExistingCandidates == SelectSeq(candidates, LAMBDA c : Exists(env, c))
CandidateCalls == [i \in DOMAIN ExistingCandidates |-> <<"Popen", ExistingCandidates[i]>>]
\* an attempt list cut after its first primitive that does not raise
UpToFirstSuccess(attempts) ==
    LET good == {i \in DOMAIN attempts : attempts[i] \notin env.raises}
    IN  IF good = {} THEN attempts ELSE SubSeq(attempts, 1, SetMin(good))
AllFail(attempts) == \A i \in DOMAIN attempts : attempts[i] \in env.raises
VsCodeFailureReported ==
    /\ \E i \in DOMAIN launch :
          launch[i].t = "log" /\ launch[i].f = "Could not open Visual Studio Code."
    /\ \E i \in DOMAIN launch :
          launch[i].t = "speak" /\ launch[i].f = "Sorry, I couldn't open Visual Studio Code."
VsCodeFailureSilent ==
    \A i \in DOMAIN launch :
        launch[i].f \notin {"Could not open Visual Studio Code.",
                            "Sorry, I couldn't open Visual Studio Code."}
\* the order as the specification gives it, and with the shell starts the
\* code makes
ClaimedAttempts ==
    <<<<"Popen", P_code>>, <<"Popen", P_code_exe>>>>
    \o CandidateCalls \o <<<<"os.startfile", P_code>>>>
AttemptsWithShellStart ==
    <<<<"Popen", P_code>>, <<"shell start", P_code>>,
      <<"Popen", P_code_exe>>, <<"shell start", P_code_exe>>>>
    \o CandidateCalls \o <<<<"os.startfile", P_code>>>>
ResolvesBy(attempts) ==
    (launch # << >> /\ LaunchTarget \in VsCodeKeys) =>
        /\ Calls(launch) = UpToFirstSuccess(attempts)
        /\ IF AllFail(attempts) THEN VsCodeFailureReported ELSE VsCodeFailureSilent

\* C7 as stated: resolving a key mapped to the code editor invokes, in this
\* order and no others, the bare command "code", "code.exe", each existing
\* candidate install path, then the OS default-open of "code", stopping at the
\* first that succeeds, and reports failure if and only if all of them failed.
C7_LaunchOrderAsClaimed == ResolvesBy(ClaimedAttempts)
\* C7 amended: the same, with a shell start of "code" after "code" raised and
\* a shell start of "code.exe" after "code.exe" raised among the primitives,
\* each in its place in the order.
C7_LaunchOrderWithShellStart == ResolvesBy(AttemptsWithShellStart)
\* a resolution that went past both commands and their shell starts and
\* launched the second install path
C7_Witness ==
    /\ launch # << >> /\ LaunchTarget \in VsCodeKeys
    /\ \E i \in DOMAIN launch :
          /\ launch[i].t = "call" /\ launch[i].ok
          /\ launch[i].a = candidates[2]

\* URL-shaped as the specification has it: an http or https scheme, or a dot and no
\* whitespace
UrlShaped(text) ==
    LET t == lower(strip(text))
    IN  \/ startswith(t, P_http_scheme)
        \/ startswith(t, P_https_scheme)
        \/ (contains(t, <<".">>) /\ \A i \in DOMAIN t : ~IsSpace(t[i]))
\* C8: for a URL-shaped target open_any_app invokes webbrowser.open once and no
\* other primitive, and never consults known_apps, whether the open succeeds
\* or raises.
C8_UrlTargetsOnlyWebsite ==
    (launch # << >> /\ UrlShaped(launch[1].a)) =>
        /\ Len(Calls(launch)) = 1
        /\ Calls(launch)[1] = <<"webbrowser.open", normalize_website(launch[1].a)>>
        /\ \A i \in DOMAIN launch : launch[i].t # "query"
\* "example.com" was resolved, and the website open raised
C8_Witness ==
    /\ launch # << >>
    /\ launch[1].a = match_rule(I_open_example_com).a
    /\ \E i \in DOMAIN launch : launch[i].f = "Could not open website: {}"




\* ------------------------------------------------------------------------
\* Reminders at a time of day: lines naming a time that is still ahead today
\* and one that has passed, typed while the clock runs
\* ------------------------------------------------------------------------
I_remind_at_1100 == <<"r","e","m","i","n","d"," ","m","e"," ","a","t"," ","1","1",":","0","0"," ","t","o"," ","c","a","l","l">>
AbsoluteInputs == {I_remind_at, I_remind_at_1100}
InitAbsolute ==
    /\ Booted("engine", TRUE)
    /\ entry = << >> /\ env = NoEnv /\ notes = {}
NextAbsolute ==
    \/ type_text(AbsoluteInputs, MaxTyped)
    \/ on_enter
    \/ handle_command
    \/ schedule_reminder_at
    \/ acquire_reminder_lock
    \/ schedule_reminder_append
    \/ Timers
    \/ Tick(MaxTicks)
SpecAbsolute == InitAbsolute /\ [][NextAbsolute]_vars

\* the times of day the typed lines name, in seconds since midnight
AbsoluteTimes ==
    {parse_reminder_time(match_remind_at(lower(c)).g1) : c \in AbsoluteInputs}
\* C11: a "remind me at HH:MM to M" line with a valid time of day is never
\* rejected as past, and the reminder it registers fires at HH:MM, at most a
\* day after it was set - also when the clock advances between the router's
\* comparison and the scheduler's.
C11_AbsoluteNeverRejected ==
    /\ \A i \in DOMAIN log : log[i] # PastLog
    /\ \A i \in DOMAIN spoken : spoken[i] # PastSay
    /\ \A k \in DOMAIN scheduled_reminders :
          /\ scheduled_reminders[k].time % SecondsPerDay \in AbsoluteTimes
          /\ timers[scheduled_reminders[k].timer].interval \in 1..SecondsPerDay


\* the Tk event loop runs every callback that is due: the poll that root.after
\* scheduled and each turn of its while loop; the for loop of handle_command
\* is over a finite list and the Tk thread keeps running it, so it never stays
\* in it for ever
SpecQueueFair ==
    /\ InitQueue /\ [][NextQueue]_vars
    /\ WF_vars(process_queue) /\ WF_vars(process_queue_get)
    /\ []<>(pc # "handle")

\* the phrases the listener put on command_queue, in the order it accepted them
Accepted == SelectSeq(log, LAMBDA e : e.f = "Heard: {}")
\* the fragments the router was called on, in the order of the calls
Routed == SelectSeq(log, LAMBDA e : e.f = "Command: {}")
\* the first fragment handle_command hands to the router for a command
FirstFragment(cmd) ==
    LET nonblank == SelectSeq(re_split_conjunctions(cmd),
                              LAMBDA p : strip(p) # << >>)
    IN  strip(Head(nonblank))
\* C12: every command the listener accepts is dispatched to the router, once
\* and in the order of acceptance: the k-th accepted phrase is eventually the
\* k-th command the router starts on.
C12_AcceptedDispatchedOnceInOrder ==
    \A k \in 1..MaxHeard :
        (Len(Accepted) >= k)
            ~> (\E n \in k..Len(Routed) :
                    Routed[n].a = FirstFragment(Accepted[k].a))


\* ------------------------------------------------------------------------
\* Start-up without a speech device: the engine module is missing or its
\* initialization raises, and lines are typed afterwards
\* ------------------------------------------------------------------------
TtsFailures == TtsStartOutcomes \ {"engine"}
InitDegraded == Init
NextDegraded ==
    \/ tts_worker_start(TtsFailures)
    \/ tts_worker_check
    \/ tts_worker_get
    \/ background_listener_start(BOOLEAN)
    \/ type_text({I_time, I_joke}, MaxTyped)
    \/ on_enter
    \/ handle_command
SpecDegraded == InitDegraded /\ [][NextDegraded]_vars

\* C13: without a speech device the worker thread is still there before
\* shutdown, at the top of its loop or taking an item off tts_queue, whichever
\* of the two start-up steps failed.
C13_DegradedWorkerKeepsDraining ==
    (~engine /\ ~tts_stop_event /\ ~closing) => ttsPc \in {"start", "loop", "get"}


\* ------------------------------------------------------------------------
\* Every branch of open_any_app at work: a URL, a "website" marker, a mapped
\* application, the code editor and an unknown name, each with any of the
\* primitives it can reach raising
\* ------------------------------------------------------------------------
I_open_google_maps == <<"o","p","e","n"," ","G","o","o","g","l","e"," ","M","a","p","s">>
I_open_website_example == <<"o","p","e","n"," ","w","e","b","s","i","t","e"," ","E","x","a","m","p","l","e">>
I_open_httpbin == <<"o","p","e","n"," ","h","t","t","p","b","i","n",".","o","r","g">>
P_Google_Maps == <<"G","o","o","g","l","e"," ","M","a","p","s">>
ResolveInputs == {I_open_google_maps, I_open_website_example, I_open_httpbin,
                  I_open_http_upper, I_open_example_com, I_open_paint,
                  I_open_vs_code}
UnknownCalls ==
    {<<"webbrowser.open",
       normalize_website(P_www \o RemoveSpaces(lower(P_Google_Maps)) \o P_com)>>,
     <<"Popen", P_Google_Maps>>, <<"shell start", P_Google_Maps>>,
     <<"shell start again", P_Google_Maps>>}
WebsiteCalls ==
    {<<"webbrowser.open", normalize_website(match_rule(i).a)>> :
        i \in {I_open_example_com, I_open_http_upper, I_open_httpbin}}
    \cup {<<"webbrowser.open",
            normalize_website(strip_site_keyword(match_rule(I_open_website_example).a))>>}
MappedCalls ==
    {<<"os.startfile", P_mspaint_exe>>, <<"Popen", P_mspaint_exe>>,
     <<"shell start", P_mspaint_exe>>}
ResolveEnvs ==
    [raises : SUBSET UnknownCalls \cup SUBSET WebsiteCalls \cup SUBSET MappedCalls,
     absent : {{}}]
    \cup [raises : SUBSET VsCodeCalls, absent : {{}, Range(candidates)}]
InitResolve ==
    /\ Booted("engine", TRUE)
    /\ entry = << >> /\ notes = {}
    /\ env \in ResolveEnvs
NextResolve ==
    \/ type_text(ResolveInputs, MaxLaunches)
    \/ on_enter
    \/ handle_command
SpecResolve == InitResolve /\ [][NextResolve]_vars

\* the failure reports of open_any_app: the last error line and the apology
FailureLogs == {"Could not open website: {}", "Could not parse website target.",
                "Could not open Visual Studio Code.",
                "Could not open mapped app {}.", "Could not open: {}"}
Apologies == {"Sorry, I couldn't open the website {}.",
              "Sorry, I couldn't parse that website.",
              "Sorry, I couldn't open Visual Studio Code.",
              "Sorry, I couldn't open {}."}
Count(ev, t, fs) == Cardinality({i \in DOMAIN ev : ev[i].t = t /\ ev[i].f \in fs})
Succeeded(ev) == \E i \in DOMAIN ev : ev[i].t = "call" /\ ev[i].ok
\* C14: within one open_any_app call no primitive is invoked after one that
\* succeeded, and the call ends in exactly one outcome: a primitive succeeded
\* and nothing is reported, or none did and one error line and one apology
\* are emitted.
C14_StopsAtSuccessOneOutcome ==
    launch # << >> =>
        /\ \A i, j \in DOMAIN launch :
              (i < j /\ launch[i].t = "call" /\ launch[i].ok)
                  => launch[j].t # "call"
        /\ IF Succeeded(launch)
           THEN Count(launch, "log", FailureLogs) = 0
                /\ Count(launch, "speak", Apologies) = 0
           ELSE Count(launch, "log", FailureLogs) = 1
                /\ Count(launch, "speak", Apologies) = 1
\* an unknown name whose website guess and literal launch failed and whose
\* last shell start succeeded
C14_Witness ==
    /\ launch # << >> /\ launch[1].a = P_Google_Maps
    /\ Len(Calls(launch)) = 4
    /\ Succeeded(launch)


\* a target of the last resort: not URL-shaped, without a "website " or
\* "site " marker, and not a key of known_apps
Unmapped(target_raw) ==
    /\ ~UrlShaped(target_raw)
    /\ ~startswith(lower(target_raw), P_website)
    /\ ~startswith(lower(target_raw), P_site)
    /\ lower(target_raw) \notin known_keys
\* the call events of the last open_any_app call
CallEvents == SelectSeq(launch, LAMBDA e : e.t = "call")
\* the three strategies as runs of call events: the website guess, the
\* literal launch (Popen and, when that raised, its shell start), the shell
\* start of the last resort
GuessOf(target_raw) ==
    <<"webbrowser.open", P_https_www \o RemoveSpaces(lower(target_raw)) \o P_com>>
ExhaustedReported ==
    /\ Count(launch, "log", {"Could not open: {}"}) = 1
    /\ Count(launch, "speak", {"Sorry, I couldn't open {}."}) = 1
\* C15: for an unmapped target open_any_app tries the website guess
\* https://www.<target without whitespace>.com, then the literal launch of the
\* target, then the shell start fallback, each only when the one before
\* failed, and reports exhaustion if and only if all three failed.
C15_UnmappedFallbackOrder ==
    (launch # << >> /\ Unmapped(launch[1].a)) =>
        \E raw \in {launch[1].a} : \E c \in {CallEvents} :
            /\ Len(c) >= 1 /\ <<c[1].f, c[1].a>> = GuessOf(raw)
            /\ IF c[1].ok THEN Len(c) = 1
               ELSE /\ Len(c) >= 2 /\ <<c[2].f, c[2].a>> = <<"Popen", raw>>
                    /\ IF c[2].ok THEN Len(c) = 2
                       ELSE /\ Len(c) >= 3
                            /\ <<c[3].f, c[3].a>> = <<"shell start", raw>>
                            /\ IF c[3].ok THEN Len(c) = 3
                               ELSE /\ Len(c) = 4
                                    /\ <<c[4].f, c[4].a>> = <<"shell start", raw>>
            /\ ExhaustedReported <=> ~Succeeded(launch)
            /\ Succeeded(launch) =>
                  /\ Count(launch, "log", FailureLogs) = 0
                  /\ Count(launch, "speak", Apologies) = 0
\* "Google Maps" went through all three strategies and none succeeded
C15_Witness ==
    /\ launch # << >> /\ launch[1].a = P_Google_Maps
    /\ Len(CallEvents) = 4
    /\ ExhaustedReported


\* the URL the specification has the browser opener receive for a target
ClaimedUrl(target) ==
    LET t == strip(target)
    IN  IF startswith(lower(t), P_http_scheme) \/ startswith(lower(t), P_https_scheme)
        THEN t
        ELSE IF contains(t, <<".">>) THEN P_https_scheme \o t
        ELSE P_https_www \o t \o P_com
\* how many schemes a URL begins with
RECURSIVE LeadingSchemes(_)
LeadingSchemes(url) ==
    IF startswith(lower(url), P_https_scheme)
    THEN 1 + LeadingSchemes(Drop(url, Len(P_https_scheme)))
    ELSE IF startswith(lower(url), P_http_scheme)
    THEN 1 + LeadingSchemes(Drop(url, Len(P_http_scheme)))
    ELSE 0
\* C16: for a URL-shaped target the URL handed to webbrowser.open is the
\* target itself when it carries an http:// or https:// scheme in any letter
\* case, "https://" + target when it has a dot and no scheme, and
\* "https://www.<target>.com" otherwise; it begins with exactly one scheme.
C16_OpenedUrlAsClaimed ==
    (launch # << >> /\ UrlShaped(launch[1].a)) =>
        \A i \in DOMAIN launch :
            (launch[i].t = "call" /\ launch[i].f = "webbrowser.open") =>
                /\ launch[i].a = ClaimedUrl(launch[1].a)
                /\ LeadingSchemes(launch[i].a) = 1


\* ------------------------------------------------------------------------
\* The registry lock at work: reminders are set, listed and canceled from
\* the entry box while the clock runs, and the Tk thread runs every "with"
\* block it has entered
\* ------------------------------------------------------------------------
LockInputs == {I_remind_stretch, I_cancel_all, I_list_then_time}
InitLock == InitReminders
NextLock ==
    \/ type_text(LockInputs, MaxTyped)
    \/ Handlers
    \/ Tick(MaxTicks)
SpecLock ==
    /\ InitLock /\ [][NextLock]_vars
    /\ WF_vars(acquire_reminder_lock)
    /\ WF_vars(schedule_reminder_append)
    /\ WF_vars(list_reminders)
    /\ WF_vars(cancel_all_reminders)

\* where the Tk thread is inside a "with reminder_lock:" block, and where it
\* waits to enter one
InLockedBlock == pc \in {"sched_append", "list_body", "cancel_body"}
AtLock == pc \in {"sched_lock", "list_lock", "cancel_lock"}
\* C18: every step that reads or writes scheduled_reminders (the append, the
\* listing, the cancel loop and clear) is taken with reminder_lock held by the
\* thread taking it; the lock is held exactly while that thread is inside one
\* of the three blocks; a thread waiting for the lock gets it and every holder
\* releases it.
C18_RegistryUnderLock ==
    /\ [][(scheduled_reminders' # scheduled_reminders
           \/ (InLockedBlock /\ pc' # pc)) => reminder_lock = "tk"]_vars
    /\ [](reminder_lock \in {"free", "tk"})
    /\ [](reminder_lock = "tk" <=> InLockedBlock)
    /\ (AtLock ~> reminder_lock = "tk")
    /\ (reminder_lock = "tk" ~> reminder_lock = "free")
\* the lock is held for the cancel loop over a registry with a reminder in it
C18_Witness ==
    /\ reminder_lock = "tk" /\ pc = "cancel_body"
    /\ scheduled_reminders # << >>


\* ------------------------------------------------------------------------
\* Shutdown: a reminder line is in the entry box, and the window is closed
\* before it is entered or while the reminder is pending or firing, with
\* utterances queued. Every thread keeps being scheduled: the Tk thread
\* runs on_close to its end, the listener loop and the worker take their
\* steps. When root.destroy runs is left open.
\* ------------------------------------------------------------------------
InitShutdown ==
    /\ Booted("engine", TRUE)
    /\ entry = I_remind_stretch /\ env = NoEnv /\ notes = {}
NextShutdown ==
    \/ on_enter
    \/ handle_command
    \/ schedule_reminder_at
    \/ acquire_reminder_lock
    \/ schedule_reminder_append
    \/ cancel_all_reminders
    \/ cancel_all_reminders_report
    \/ Shutdown
    \/ Timers
    \/ Worker({TRUE})
    \/ tts_worker_stop
    \/ background_listener_stop
    \/ Tick(MaxTicks)
SpecShutdown ==
    /\ InitShutdown /\ [][NextShutdown]_vars
    /\ WF_vars(acquire_reminder_lock)
    /\ WF_vars(cancel_all_reminders)
    /\ WF_vars(cancel_all_reminders_report)
    /\ WF_vars(on_close_finish)
    /\ WF_vars(background_listener_stop)
    /\ WF_vars(Worker({TRUE}) \/ tts_worker_stop)

\* both loops are over, or the process is
LoopsOver ==
    \/ pc = "destroyed"
    \/ (listener = "exited" /\ ttsPc \in {"exited", "crashed"})
SentinelQueued == \E i \in DOMAIN tts_queue : tts_queue[i] = None
\* C19: once on_close has been called the listener loop and the worker's loop
\* both end, whatever is on tts_queue; on_close sets stop_event first, then
\* cancels every reminder of the registry, and only then sets tts_stop_event
\* and enqueues the sentinel.
C19_ShutdownStopsLoopsInOrder ==
    /\ closing ~> LoopsOver
    /\ [](closing => stop_event)
    /\ [][((~SentinelQueued /\ SentinelQueued')
            \/ (~tts_stop_event /\ tts_stop_event')) =>
              /\ pc = "close_tail" /\ stop_event
              /\ scheduled_reminders = << >>
              /\ \A i \in DOMAIN timers : timers[i].finished
              /\ \E i \in DOMAIN log : log[i] = CanceledLog]_vars
\* both loops have ended with the sentinel still on tts_queue behind an
\* utterance, before the window is destroyed
C19_Witness ==
    /\ closing /\ pc = "mainloop"
    /\ listener = "exited" /\ ttsPc = "exited"
    /\ Len(tts_queue) >= 2 /\ tts_queue[Len(tts_queue)] = None
    /\ \E i \in DOMAIN timers : timers[i].canceled


\* C20: a sub-command "open K" with K a key of known_apps is dispatched to
\* the generic open rule, which hands K to open_any_app; no other rule takes
\* it.
C20_OpenKnownKeyReachesLauncher ==
    \A i \in DOMAIN line.done :
        \A K \in known_keys :
            lower(line.done[i].cmd) = P_open \o K =>
                /\ line.done[i].rule = "open"
                /\ match_rule(line.done[i].cmd).a = Drop(line.done[i].cmd, Len(P_open))


\* ------------------------------------------------------------------------
\* Closing the window with recognized commands still queued: the listener
\* has put reminder commands on command_queue, the poll and on_close are
\* both due on the Tk thread, and root.destroy follows 300 ms after on_close
\* ------------------------------------------------------------------------
InitClosing == InitQueue
NextClosing ==
    \/ callback({I_remind_stretch}, {"text"}, MaxHeard)
    \/ process_queue
    \/ process_queue_get
    \/ handle_command
    \/ schedule_reminder_at
    \/ acquire_reminder_lock
    \/ schedule_reminder_append
    \/ cancel_all_reminders
    \/ cancel_all_reminders_report
    \/ Shutdown
SpecClosing == InitClosing /\ [][NextClosing]_vars

\* C21: once on_close has canceled all reminders the registry stays empty and
\* no timer is started any more: every timer there is has been canceled or
\* has fired, also when a command queued before on_close is polled after it.
C21_NoReminderAfterShutdown ==
    tts_stop_event =>
        /\ scheduled_reminders = << >>
        /\ \A i \in DOMAIN timers : timers[i].finished


\* C22: the worker stops only upon dequeuing the sentinel: when it has left
\* its loop the sentinel is off tts_queue, and every utterance that was
\* queued ahead of it has been taken and played.
C22_PlaysAllBeforeSentinel ==
    ttsPc \in {"stop", "exited"} =>
        /\ ~SentinelQueued
        /\ \A u \in DOMAIN spoken :
              (\A i \in DOMAIN tts_queue : tts_queue[i] # u) => u \in Range(played)

====
